---- MODULE Spec2Model ----
(***************************************************************************)
(* libudaemon: the runtime state (two fixed-capacity slot tables), the     *)
(* task scheduler and the poll-driven main loop of src/src/udaemon.c,      *)
(* followed along one process from ud_init to the return of ud_main_loop.  *)
(***************************************************************************)
EXTENDS Integers, Sequences, FiniteSets, TLC

\* ---------------------------------------------------------------- constants
FD_MAX == 5
TASK_MAX == 10

SIG_TERM == 1
SIG_HUP == 2
SIG_USR1 == 3
SIG_USR2 == 4

\* ud_daemon_result
err_none == 0
err_pipe_create == 10
err_fork == 11
err_pipe_read == 12
err_setsid == 20
err_daemonize == 21
err_dev_null == 22
err_pid_file == 23
err_chdir == 25
err_drop_privs == 26

\* uint16_t holds values modulo 2^16
UINT16_MOD == 2 ^ 16

\* ------------------------------------------------------------------- bounds
\* largest reading of time(NULL)
MaxTime == 4
\* API calls the application makes (before the loop and from its callbacks)
MaxCalls == 1
\* API calls the application makes when it only fills the two tables
MaxRegCalls == 11
\* API calls of the application and its tasks when only tasks are scheduled
MaxTaskCalls == 2
\* calls of ud_terminate when only the ways out of ud_main_loop are followed
MaxExitCalls == 1
\* registrations of the application when the loop is followed for as long as it runs
MaxLiveCalls == 5
MaxDispCalls == 3
MaxDestroyCalls == 3
\* registrations of the application before a startup that may fail
MaxAbortCalls == 2
\* registrations and removals of an application whose callbacks change the tables
MaxChurnCalls == 4
\* calls of an application that stops its loop from a callback
MaxStopCalls == 3
MaxLen == 3
\* iterations of the steady-state while loop
MaxIter == 2
\* OS signals delivered to the process
MaxSignals == 1
MaxQueued == 2
\* configuration objects the parser callback creates
MaxObjs == 2

\* ------------------------------------------------------------- value sets
NULL == "NULL"
\* a pointer made of the bytes an out-of-range slot write leaves behind
WILD == "WILD"
NoId == 0 - 1

FdSlots == 0 .. (FD_MAX - 1)
TaskSlots == 0 .. (TASK_MAX - 1)

\* descriptors pipe() hands out once everything above stderr was closed
PipeRd == 3
PipeWr == 4

\* arguments the application passes
AppFds == {-1, 5}
AppCallbacks == {NULL, "app_event_handler"}
AppContext == "ctx"
\* the ud_task_t values passed to ud_schedule_task
AppTasks == {NULL, "app_task"}
AppIntervals == {0, 1}
\* eh_id_t values: every slot index and one past the table
RemoveIds == 0 .. FD_MAX
\* values a task callback returns (int)
TaskRets == {-1, 0, 1, 2, UINT16_MOD}
\* struct layouts of the build: where pollfds[FD_MAX] and event_handlers[FD_MAX] land
Layouts == {"lp64", "ilp32"}

\* ud_config_t as the application fills it in; pid_file is whether a path is
\* configured for the PID file
Configs ==
    { [foreground |-> TRUE, initialize |-> TRUE, signal_handler |-> TRUE,
       idle_handler |-> TRUE, cleanup |-> TRUE, conf |-> TRUE,
       config_cleanup |-> TRUE, pid_file |-> TRUE],
      [foreground |-> FALSE, initialize |-> TRUE, signal_handler |-> TRUE,
       idle_handler |-> FALSE, cleanup |-> TRUE, conf |-> TRUE,
       config_cleanup |-> FALSE, pid_file |-> TRUE],
      [foreground |-> FALSE, initialize |-> TRUE, signal_handler |-> TRUE,
       idle_handler |-> FALSE, cleanup |-> TRUE, conf |-> TRUE,
       config_cleanup |-> FALSE, pid_file |-> FALSE],
      [foreground |-> TRUE, initialize |-> FALSE, signal_handler |-> FALSE,
       idle_handler |-> FALSE, cleanup |-> FALSE, conf |-> FALSE,
       config_cleanup |-> FALSE, pid_file |-> FALSE] }

Range(seq) == {seq[k] : k \in 1 .. Len(seq)}
Min(S) == CHOOSE x \in S : \A y \in S : x <= y

\* ---------------------------------------------------------------- variables
VARIABLES
    pc,              \* where the process is
    ud_config,       \* ud_state->ud_config
    running,         \* ud_state->running
    app_config,      \* ud_state->app_config (0 is NULL)
    pollfds,         \* ud_state->pollfds
    event_handlers,  \* ud_state->event_handlers
    task_queue,      \* ud_state->task_queue
    event_pipe,      \* the static event_pipe[2]
    installed,       \* os_signal_handler is installed with sigaction
    sigpipe,         \* bytes written to the self-pipe and not yet read
    clock,           \* the last reading of time(NULL)
    now,             \* the parameter of run_tasks
    ti,              \* the index of run_tasks' for loop
    di,              \* the index of the dispatch for loop
    cb,              \* the application callback being executed
    res,             \* the last API call and what it returned
    calls,           \* API calls made so far
    iter,            \* iterations of the while loop started so far
    nsig,            \* OS signals delivered so far
    hist,            \* per task slot: the history of the registration held
    passed,          \* per task slot: times its callback ran in the current run_tasks pass
    released,        \* per configuration object: the releases made of it, each by
                     \* config_cleanup or by free
    nobj,            \* configuration objects created so far
    cfglog,          \* the last call of config_parser: the object installed before it,
                     \* the releases made of that object before it, what the parser
                     \* returned, and the calls of the parser so far
    ident,           \* the last ud_parse_uid call: its entry and what it produced
    heap,            \* the block ud_init allocated for ud_state_t and the ud_destroy calls
    dz,              \* the processes of daemonize and their synchronization pipe
    disp,            \* what the last poll reported and what the dispatch loop did since
    trace            \* what ud_main_loop did: the path to the cleanup label, the times
                     \* the cleanup sequence and the cleanup hook ran, what the hook
                     \* and ud_main_loop returned, the bytes written to the self-pipe
                     \* and the signals passed on (written, fwd), the configuration
                     \* loads of startup (loads) and the calls of the initialize hook,
                     \* each with the loads made by then and the processes daemonize
                     \* had returned in (inits)

vars == <<pc, ud_config, running, app_config, pollfds, event_handlers, task_queue,
          event_pipe, installed, sigpipe, clock, now, ti, di, cb, res, calls,
          iter, nsig, hist, passed, released, nobj, cfglog, ident, heap, dz, disp, trace>>

tables == <<pollfds, event_handlers, task_queue>>
loopvars == <<now, ti, di, iter, passed>>
cfgvars == <<app_config, released, nobj, cfglog>>
\* what ud_state_t holds and what the loop keeps on its stack
statevars_but_heap == <<ud_config, ident, disp, running, pollfds, event_handlers, task_queue,
                        event_pipe, installed, sigpipe, nsig, clock, cb, res, calls,
                        hist, now, ti, di, iter, passed, app_config, released, nobj,
                        cfglog>>
sigvars == <<event_pipe, installed, sigpipe, nsig>>

NoCb == [kind |-> "none", slot |-> NoId, stale |-> FALSE, sig |-> 0]
\* the tables as a call found them
Snapshot == [pollfds |-> pollfds, event_handlers |-> event_handlers,
             task_queue |-> task_queue]

\* res: the call or callback return that just happened (op, its argument arg, the
\* callback argument cbk, the code rc and the slot id it returned), the tables
\* (pre) and running (run) before it, and the handler slots removed since the last
\* registration (freed)
NoRes == [op |-> "none", arg |-> NoId, cbk |-> NULL, rc |-> "none", id |-> NoId,
          pre |-> <<>>, run |-> FALSE, freed |-> {}]
Result(op, arg, cbk, rc, id, freed) ==
    [op |-> op, arg |-> arg, cbk |-> cbk, rc |-> rc, id |-> id,
     pre |-> Snapshot, run |-> running, freed |-> freed]
\* hist[i]: for the registration in task slot i, the interval (regIv) and the loop
\* iteration (regIter) it was registered with, the times its task was called (runs),
\* what the task returned (rets), and the clock readings of the last two calls
NoHist == [runs |-> 0, rets |-> <<>>, lastT |-> -1, prevT |-> -1, regIv |-> -1,
           regIter |-> -1]

\* the three processes of daemonize
Procs == {"original", "child", "daemon"}
\* daemonize has not returned in a process (it returns 0 or a negated code)
NoRet == 1
\* dz: where each process is (at), the processes with the write end of err_pipe
\* open (wr), the bytes in the pipe (pipe), the exit status (status) and the return
\* value of daemonize (ret) per process; the build and the caller (endian, priv,
\* pidf); signals pending for the original (psig) and delivered from outside (ext);
\* the signals os_signal_handler ran for in the original or the first child (hsig);
\* and what happened: the codes passed to SAFE_SIGNAL (sent), the fatal step that
\* failed per process (failed), the processes that died (killed), how the read of
\* the original ended (pread), the steps of the daemon in order (steps)
NoDz == [at |-> [q \in Procs |-> "none"], wr |-> {}, pipe |-> <<>>,
         status |-> [q \in Procs |-> NoId], ret |-> [q \in Procs |-> NoRet],
         endian |-> "little", priv |-> FALSE, pidf |-> FALSE,
         psig |-> 0, ext |-> 0, hsig |-> <<>>,
         sent |-> <<>>, failed |-> [q \in Procs |-> 0], killed |-> {},
         pread |-> "none", steps |-> <<>>]

\* disp: the revents poll stored per slot (rev) and the handlers registered then
\* (eh), the calls the dispatch loop made since, per slot, each with the callback
\* called, the index of the pollfd passed and the context passed (inv), the slots
\* a callback of the loop removed before the loop came to them (gone), the
\* descriptors the loop closed (closed), and how the poll of this iteration came
\* back (poll): interrupted, failed, with nothing ready, with something ready
NoDisp == [rev |-> [i \in 0 .. (FD_MAX - 1) |-> {}],
           eh |-> [i \in 0 .. (FD_MAX - 1) |-> [callback |-> NULL, context |-> NULL]],
           inv |-> [i \in 0 .. (FD_MAX - 1) |-> <<>>],
           gone |-> {}, closed |-> <<>>, poll |-> "none"]

\* ident: the entry given to ud_parse_uid, its return value, *uid and *gid after
\* the call (NoId when not written) and the lookups made for the user and the group
NoIdent == [entry |-> <<"?">>, rc |-> NoId, uid |-> NoId, gid |-> NoId,
            user_by |-> "none", group_by |-> "none"]

\* heap: the block malloc returned in ud_init (live or freed), the times free was
\* called on it, whether the allocator's bookkeeping was damaged, the ud_destroy
\* calls made and the argument of the last one
NewHeap == [block |-> "live", frees |-> 0, corrupt |-> FALSE, calls |-> 0,
            last |-> "none"]

NoLoad == [parses |-> 0, old |-> 0, rel |-> <<>>, ret |-> 0]

EmptyPollfd == [fd |-> -1, events |-> {}, revents |-> {}]
EmptyHandler == [callback |-> NULL, context |-> NULL]
EmptyTask == [task |-> NULL, interval |-> 0, next_deadline |-> 0, context |-> NULL]

\* ud_init: memset 0, every pollfd's fd set to -1
ud_init ==
    /\ pc = "app"
    /\ ud_config \in Configs
    /\ running = FALSE
    /\ app_config = 0
    /\ pollfds = [i \in FdSlots |-> EmptyPollfd]
    /\ event_handlers = [i \in FdSlots |-> EmptyHandler]
    /\ task_queue = [i \in TaskSlots |-> EmptyTask]
    /\ event_pipe = <<0, 0>>
    /\ installed = FALSE
    /\ sigpipe = <<>>
    /\ clock = 0
    /\ now = 0
    /\ ti = 0
    /\ di = 0
    /\ cb = NoCb
    /\ res = NoRes
    /\ calls = 0
    /\ iter = 0
    /\ nsig = 0
    /\ hist = [i \in TaskSlots |-> NoHist]
    /\ passed = [i \in TaskSlots |-> 0]
    /\ released = [o \in 1 .. MaxObjs |-> <<>>]
    /\ nobj = 0
    /\ cfglog = NoLoad
    /\ ident = NoIdent
    /\ heap = NewHeap
    /\ dz = NoDz
    /\ disp = NoDisp
    /\ trace = [path |-> "none", cleanups |-> 0, hooks |-> 0, hookret |-> NoId,
                ret |-> NoId, written |-> <<>>, fwd |-> <<>>, loads |-> 0,
                inits |-> <<>>, unlinked |-> {}]

Init == ud_init

\* the application is executing and calls the API: between ud_init and
\* ud_main_loop, or from its initialize hook, a task, an event handler or its
\* signal hook (its idle and cleanup hooks make no API call here)
CallingKinds == {"initialize", "task", "handler", "signal"}
CanCall == pc = "app" \/ cb.kind \in CallingKinds

\* the handler slots removed and not yet followed by a registration
Pending == IF res.op = "add" /\ res.rc = "OK" THEN {} ELSE res.freed

\* --------------------------------------------------------- handler registry
\* a variant of the slot search that hands out the last slot again when none is free
FindHandlerSlot_evicting(pf) ==
    IF \E i \in FdSlots : pf[i].fd < 0
    THEN Min({i \in FdSlots : pf[i].fd < 0})
    ELSE FD_MAX - 1

\* a variant of the slot search that scans from the top
FindHandlerSlot_highest(pf) ==
    IF \E i \in FdSlots : pf[i].fd < 0
    THEN CHOOSE i \in FdSlots : pf[i].fd < 0 /\ \A j \in FdSlots : pf[j].fd < 0 => j <= i
    ELSE -1

\* the first-unused scan of ud_add_event_handler: lowest index with fd < 0, or -1
FindHandlerSlot(pf) ==
    IF \E i \in FdSlots : pf[i].fd < 0
    THEN Min({i \in FdSlots : pf[i].fd < 0})
    ELSE -1

\* the stores of ud_add_event_handler into slot idx
StoreHandler(idx, fd, emask, callback, context) ==
    /\ pollfds' = [pollfds EXCEPT ![idx] = [fd |-> fd, events |-> emask, revents |-> {}]]
    /\ event_handlers' = [event_handlers EXCEPT
                            ![idx] = [callback |-> callback, context |-> context]]

ud_add_event_handler(fd, emask, callback, context) ==
    LET idx == FindHandlerSlot(pollfds) IN
    /\ CanCall
    /\ calls' = calls + 1
    /\ IF callback = NULL
       THEN /\ res' = Result("add", fd, callback, "EINVAL", NoId, Pending)
            /\ UNCHANGED <<pollfds, event_handlers>>
       ELSE IF idx < 0
       THEN /\ res' = Result("add", fd, callback, "ENOMEM", NoId, Pending)
            /\ UNCHANGED <<pollfds, event_handlers>>
       ELSE /\ StoreHandler(idx, fd, emask, callback, context)
            /\ res' = Result("add", fd, callback, "OK", idx, Pending)
    /\ UNCHANGED <<pc, ud_config, heap, ident, dz, disp, running, task_queue, cb, hist, clock,
                   loopvars, cfgvars, sigvars, trace>>

\* a variant of the removal that leaves revents as poll stored it
ClearHandlerSlot_stale(idx) ==
    /\ pollfds' = [pollfds EXCEPT ![idx].fd = -1, ![idx].events = {}]
    /\ event_handlers' = [event_handlers EXCEPT ![idx] = [callback |-> NULL, context |-> NULL]]
    /\ UNCHANGED task_queue

\* ud_remove_event_handler checks only id 0; eh_id_t is unsigned, so an id past the
\* table writes past pollfds and past event_handlers: pollfds[FD_MAX] overlays
\* event_handlers[0] and event_handlers[FD_MAX] overlays task_queue[0]
ClearHandlerSlot(idx) ==
    /\ pollfds' = [pollfds EXCEPT ![idx] = [fd |-> -1, events |-> {}, revents |-> {}]]
    /\ event_handlers' = [event_handlers EXCEPT ![idx] = [callback |-> NULL, context |-> NULL]]
    /\ UNCHANGED task_queue

ClearPastTable(id, layout) ==
    LET h == id - FD_MAX IN
    /\ event_handlers' = [event_handlers EXCEPT
            ![h] = [callback |-> WILD,
                    context |-> IF layout = "ilp32" THEN NULL ELSE @.context]]
    /\ task_queue' = [task_queue EXCEPT ![h].task = NULL, ![h].interval = 0]
    /\ UNCHANGED pollfds

RemoveRejects(id) == id = 0

ud_remove_event_handler(id, layout) ==
    /\ CanCall
    /\ calls' = calls + 1
    /\ IF RemoveRejects(id)
       THEN /\ res' = Result("remove", id, NULL, "EINVAL", NoId, Pending)
            /\ UNCHANGED tables
       ELSE /\ res' = Result("remove", id, NULL, "OK", NoId,
                                IF id < FD_MAX THEN Pending \cup {id} ELSE Pending)
            /\ IF id < FD_MAX THEN ClearHandlerSlot(id) ELSE ClearPastTable(id, layout)
    /\ disp' = IF /\ ~RemoveRejects(id) /\ id < FD_MAX
                  /\ cb.kind \in {"handler", "signal"}
                  /\ disp.inv[id] = <<>>
               THEN [disp EXCEPT !.gone = @ \cup {id}] ELSE disp
    /\ UNCHANGED <<pc, ud_config, heap, ident, dz, running, cb, hist, clock,
                   loopvars, cfgvars, sigvars, trace>>

\* ------------------------------------------------------------ task registry
\* the first-unused scan of ud_schedule_task: lowest index with no task, or -1
FindTaskSlot(tq) ==
    IF \E i \in TaskSlots : tq[i].task = NULL
    THEN Min({i \in TaskSlots : tq[i].task = NULL})
    ELSE -1

\* t is what time(NULL) reads inside the call
ud_schedule_task(interval, task, context, t) ==
    LET idx == FindTaskSlot(task_queue) IN
    /\ CanCall
    /\ calls' = calls + 1
    /\ IF idx < 0
       THEN /\ res' = Result("schedule", interval, task, "ENOMEM", NoId, Pending)
            /\ UNCHANGED <<task_queue, hist, clock, cb>>
       ELSE /\ task_queue' = [task_queue EXCEPT
                    ![idx] = [task |-> task, interval |-> interval,
                              next_deadline |-> t + interval, context |-> context]]
            /\ clock' = t
            /\ hist' = [hist EXCEPT ![idx] = [NoHist EXCEPT !.regIv = interval,
                                                             !.regIter = iter]]
            /\ cb' = IF cb.kind = "task" /\ cb.slot = idx
                     THEN [cb EXCEPT !.stale = TRUE] ELSE cb
            /\ res' = Result("schedule", interval, task, "OK", idx, Pending)
    /\ UNCHANGED <<pc, ud_config, heap, ident, dz, disp, running, pollfds, event_handlers,
                   loopvars, cfgvars, sigvars, trace>>

ud_terminate ==
    /\ CanCall
    /\ calls' = calls + 1
    /\ running' = FALSE
    /\ res' = Result("terminate", NoId, NULL, "OK", NoId, Pending)
    /\ UNCHANGED <<pc, ud_config, heap, ident, dz, disp, tables, cb, hist, clock,
                   loopvars, cfgvars, sigvars, trace>>

\* ----------------------------------------------------------- ud_parse_uid
Digits == {"0", "1"}
\* the characters entries are made of
EntryChars == Digits \cup {"a", "-", ":"}
Entries == UNION {[1 .. n -> EntryChars] : n \in 0 .. MaxLen}

\* the accounts of the system: root, a user and group named a, and nobody
Passwd == { [name |-> <<"r", "o", "o", "t">>, uid |-> 0, gid |-> 0],
            [name |-> <<"a">>, uid |-> 1, gid |-> 1],
            [name |-> <<"n", "o", "b", "o", "d", "y">>, uid |-> 2, gid |-> 2] }
Groups == { [name |-> <<"r", "o", "o", "t">>, gid |-> 0],
            [name |-> <<"a">>, gid |-> 3],
            [name |-> <<"n", "o", "b", "o", "d", "y">>, gid |-> 2] }

\* the lookups: the set with the entry found, empty for a NULL result
getpwnam(name) == {e \in Passwd : e.name = name}
getpwuid(id) == {e \in Passwd : e.uid = id}
getgrnam(name) == {e \in Groups : e.name = name}
getgrgid(id) == {e \in Groups : e.gid = id}
Entry(found) == CHOOSE e \in found : TRUE

\* the value of a run of decimal digits
RECURSIVE DecimalValue(_)
DecimalValue(ds) ==
    IF ds = <<>> THEN 0
    ELSE 10 * DecimalValue(SubSeq(ds, 1, Len(ds) - 1))
         + (IF ds[Len(ds)] = "1" THEN 1 ELSE 0)

\* strtol(name, &ep, 10): an optional sign, then the longest run of digits; ep is
\* the position after the digits (Len + 1 is the terminator), and with no digit at
\* all the value is 0 and ep is the start of name
strtol(name) ==
    LET neg == name # <<>> /\ name[1] = "-"
        from == IF neg THEN 2 ELSE 1
        stop == IF \E k \in from .. Len(name) : name[k] \notin Digits
                THEN Min({k \in from .. Len(name) : name[k] \notin Digits})
                ELSE Len(name) + 1
        v == DecimalValue(SubSeq(name, from, stop - 1))
    IN  IF stop = from
        THEN [val |-> 0, ep |-> 1]
        ELSE [val |-> IF neg THEN 0 - v ELSE v, ep |-> stop]

\* strtonum: -1 unless *ep is the terminator
strtonum(name) ==
    IF strtol(name).ep # Len(name) + 1 THEN 0 - 1 ELSE strtol(name).val

\* val & UINT32_MAX for val >= 0: the value itself below 2^32, which every number
\* of MaxLen digits is
MaskUint32(val) == val

\* strrchr(user, ':'): the position of the last colon, 0 if there is none
LastColon(entry) ==
    IF \E k \in 1 .. Len(entry) : entry[k] = ":"
    THEN CHOOSE k \in 1 .. Len(entry) :
            entry[k] = ":" /\ \A j \in (k + 1) .. Len(entry) : entry[j] # ":"
    ELSE 0
UserPart(entry) ==
    IF LastColon(entry) = 0 THEN entry ELSE SubSeq(entry, 1, LastColon(entry) - 1)
GroupPart(entry) == SubSeq(entry, LastColon(entry) + 1, Len(entry))

\* what ud_parse_uid(entry, &uid, &gid) produces
ParseUid(entry) ==
    IF entry = <<>>
    THEN LET pwd == getpwnam(<<"n", "o", "b", "o", "d", "y">>) IN
         IF pwd = {}
         THEN [NoIdent EXCEPT !.entry = entry, !.rc = 1, !.user_by = "getpwnam"]
         ELSE [entry |-> entry, rc |-> 0, uid |-> Entry(pwd).uid, gid |-> Entry(pwd).gid,
               user_by |-> "getpwnam", group_by |-> "none"]
    ELSE
    LET user == UserPart(entry)
        group == GroupPart(entry)
        uval == strtonum(user)
        pwd == IF uval >= 0 THEN getpwuid(MaskUint32(uval)) ELSE getpwnam(user)
        uby == IF uval >= 0 THEN "getpwuid" ELSE "getpwnam"
        gval == strtonum(group)
        grp == IF gval >= 0 THEN getgrgid(MaskUint32(gval)) ELSE getgrnam(group)
        gby == IF gval >= 0 THEN "getgrgid" ELSE "getgrnam"
    IN  IF pwd = {}
        THEN [NoIdent EXCEPT !.entry = entry, !.rc = 1, !.user_by = uby]
        ELSE IF LastColon(entry) = 0
        THEN [entry |-> entry, rc |-> 0, uid |-> Entry(pwd).uid, gid |-> Entry(pwd).gid,
              user_by |-> uby, group_by |-> "none"]
        ELSE IF grp = {}
        THEN [entry |-> entry, rc |-> 1, uid |-> Entry(pwd).uid, gid |-> Entry(pwd).gid,
              user_by |-> uby, group_by |-> gby]
        ELSE [entry |-> entry, rc |-> 0, uid |-> Entry(pwd).uid, gid |-> Entry(grp).gid,
              user_by |-> uby, group_by |-> gby]

\* the application calls ud_parse_uid before it fills in its ud_config_t
ud_parse_uid(entry) ==
    /\ pc = "app"
    /\ ident' = ParseUid(entry)
    /\ UNCHANGED <<pc, trace, dz, heap, ud_config, disp, running, tables, sigvars, clock,
                   cb, res, calls, hist, loopvars, cfgvars>>

\* ------------------------------------------------------------- ud_destroy
\* what free() of a block that is already freed can do: abort the process (the
\* allocator detects it), damage the allocator's lists, or go unnoticed
DoubleFree == {"abort", "corrupt", "unnoticed"}

\* ud_destroy(handle), called outside ud_main_loop: before it or after it returned,
\* and again after the state was destroyed (the caller's pointer is not cleared)
ud_destroy(handle, outcome) ==
    /\ pc \in {"app", "returned", "destroyed"}
    /\ heap.calls < MaxDestroyCalls
    /\ IF handle = NULL
       THEN /\ heap' = [heap EXCEPT !.calls = @ + 1, !.last = handle]
            /\ outcome = "unnoticed"
            /\ UNCHANGED pc
       ELSE IF heap.block = "live"
       THEN /\ heap' = [heap EXCEPT !.calls = @ + 1, !.last = handle,
                                    !.block = "freed", !.frees = @ + 1]
            /\ outcome = "unnoticed"
            /\ pc' = "destroyed"
       ELSE /\ heap' = [heap EXCEPT !.calls = @ + 1, !.last = handle,
                                    !.frees = @ + 1,
                                    !.corrupt = (outcome = "corrupt")]
            /\ pc' = IF outcome = "abort" THEN "aborted" ELSE pc
    /\ UNCHANGED <<trace, dz, statevars_but_heap>>

\* ------------------------------------------------------- application config
\* a variant that installs the new object and leaves the old one alone
udaemon_replace_config_leak(new) ==
    /\ app_config' = new
    /\ UNCHANGED released

\* udaemon_replace_config: install new, release the old one if there was one,
\* through the config_cleanup hook or with free
udaemon_replace_config(new) ==
    /\ app_config' = new
    /\ released' = IF app_config # 0
                   THEN [released EXCEPT ![app_config] =
                            Append(@, IF ud_config.config_cleanup
                                      THEN "config_cleanup" ELSE "free")]
                   ELSE released

\* what config_parser may return: NULL, the object it was given, a new object
ParserResults ==
    {0} \cup (IF app_config # 0 THEN {app_config} ELSE {})
        \cup (IF nobj < MaxObjs THEN {nobj + 1} ELSE {})

\* udaemon_read_config with new the parser's result
udaemon_read_config(new) ==
    IF ud_config.conf
    THEN /\ cfglog' = [parses |-> cfglog.parses + 1, old |-> app_config,
                       rel |-> IF app_config # 0 THEN released[app_config] ELSE <<>>,
                       ret |-> new]
         /\ IF new # 0
            THEN /\ udaemon_replace_config(new)
                 /\ nobj' = IF new > nobj THEN new ELSE nobj
            ELSE UNCHANGED <<app_config, released, nobj>>
    ELSE UNCHANGED cfgvars

\* ---------------------------------------------------------------- signals
\* os_signal_handler: one byte written to event_pipe[1], whatever that holds.
\* Before pipe() it is descriptor 0, after cleanup a closed descriptor: the byte
\* then does not reach the self-pipe.
PipeOpen == event_pipe[2] = PipeWr /\ pc # "returned"

\* A signal can arrive at any instruction. The byte it queues is looked at by
\* poll() and by read() only, so its arrival is taken at the points where the
\* difference shows: before pipe(), before a poll(), after the return.
SignalPoints == {"pipe", "poll", "returned"}

\* the max-th signal at most; trace.written keeps the bytes that reached the pipe
write_signal_event(byte, max) ==
    /\ installed
    /\ pc \in SignalPoints
    /\ nsig < max
    /\ nsig' = nsig + 1
    /\ sigpipe' = IF PipeOpen THEN Append(sigpipe, byte) ELSE sigpipe
    /\ trace' = [trace EXCEPT !.written = IF PipeOpen THEN Append(@, byte) ELSE @]
    /\ UNCHANGED <<pc, ud_config, heap, ident, dz, disp, running, tables, event_pipe, installed, clock,
                   cb, res, calls, hist, loopvars, cfgvars>>

os_signal_handler(byte) == write_signal_event(byte, MaxSignals)

\* ---------------------------------------------------------- ud_main_loop
\* entry: running = true, inherited descriptors closed, signal handlers installed
ud_main_loop_enter ==
    /\ pc = "app"
    /\ pc' = "pipe"
    /\ running' = TRUE
    /\ installed' = TRUE
    /\ res' = NoRes
    /\ UNCHANGED <<ud_config, heap, ident, dz, disp, tables, event_pipe, sigpipe, nsig, clock, cb, calls, hist, loopvars, cfgvars, trace>>

\* a variant that returns on the spot instead of jumping to the cleanup label
GotoCleanup_return(path) ==
    /\ pc' = "returned"
    /\ trace' = [trace EXCEPT !.path = path, !.ret = 0]

\* where ud_main_loop goes when it jumps to the cleanup label
GotoCleanup(path) ==
    /\ pc' = "cleanup"
    /\ trace' = [trace EXCEPT !.path = path]

\* pipe(event_pipe), then the read end registered for main_signal_handler with the
\* result of ud_add_event_handler ignored
create_event_pipe(ok) ==
    LET idx == FindHandlerSlot(pollfds) IN
    /\ pc = "pipe"
    /\ IF ~ok
       THEN /\ GotoCleanup("pipe_fail")
            /\ UNCHANGED <<pollfds, event_handlers, event_pipe>>
       ELSE /\ event_pipe' = <<PipeRd, PipeWr>>
            /\ IF idx < 0
               THEN UNCHANGED <<pollfds, event_handlers>>
               ELSE StoreHandler(idx, PipeRd, {"POLLIN"}, "main_signal_handler", NULL)
            /\ pc' = IF ud_config.foreground THEN "read_config" ELSE "daemonize"
            /\ UNCHANGED trace
    /\ UNCHANGED <<ud_config, heap, ident, dz, disp, running, task_queue, installed, sigpipe, nsig, clock,
                   cb, res, calls, hist, loopvars, cfgvars>>

\* daemonize as the process followed sees it: it returns a failure code when the
\* pipe or the first fork fails, it returns err_none in the daemon, and every
\* other path ends in exit() inside daemonize
DaemonizeOutcomes == {"err_pipe_create", "err_fork", "exit", "err_none"}

daemonize(outcome) ==
    /\ pc = "daemonize"
    /\ IF outcome = "err_none"
       THEN pc' = "read_config" /\ UNCHANGED trace
       ELSE IF outcome = "exit"
       THEN pc' = "exited" /\ UNCHANGED trace
       ELSE GotoCleanup("daemonize_fail")
    /\ UNCHANGED <<ud_config, heap, ident, dz, disp, running, tables, sigvars, clock, cb, res, calls,
                   hist, loopvars, cfgvars>>

\* ------------------------------------------------- daemonize, process by process
\* everything of the process in ud_main_loop that daemonize does not touch
statevars == <<heap, statevars_but_heap>>

\* write(err_pipe[1], &_rc, 1): the first byte of the int in memory
ByteOf(rc, endian) == IF endian = "little" THEN rc % 256 ELSE (rc \div (2 ^ 24)) % 256
\* a variant in which the byte read is dropped
IntOf_unread(byte, endian) == 0

\* read(err_pipe[0], &rc, 1) into int rc = 0
IntOf(byte, endian) == IF endian = "little" THEN byte ELSE byte * (2 ^ 24)
\* a variant in which every failure exits with status 1
ExitStatus_failure(rc) == IF rc = 0 THEN 0 ELSE 1

\* the status a parent sees after exit(rc)
ExitStatus(rc) == rc % 256

Running(d, q) == d.at[q] \notin {"none", "exited", "returned"}

\* SAFE_SIGNAL(rc) in process q: one byte written if the read end is still open (the
\* original has not exited; SIGPIPE is ignored), then close(err_pipe[1])
SAFE_SIGNAL(d, q, rc) ==
    [d EXCEPT !.sent = Append(@, [by |-> q, rc |-> rc]),
              !.pipe = IF d.at["original"] # "exited"
                       THEN Append(@, ByteOf(rc, d.endian)) ELSE @,
              !.wr = @ \ {q}]

\* exit(rc) in process q: its descriptors close, the original gets SIGCHLD for its child
Exit(d, q, rc) ==
    [d EXCEPT !.at[q] = "exited", !.status[q] = ExitStatus(rc), !.wr = @ \ {q},
              !.psig = IF q = "child" THEN @ + 1 ELSE @]

\* SIGNAL_FAILURE(rc): SAFE_SIGNAL(rc), exit(rc)
SIGNAL_FAILURE(d, q, rc) ==
    Exit([SAFE_SIGNAL(d, q, rc) EXCEPT !.failed[q] = rc], q, rc)

\* daemonize returns retval in the process that ud_main_loop is followed in
Return(d, q, retval) == [d EXCEPT !.at[q] = "returned", !.ret[q] = retval]

\* the processes daemonize has returned in
Returned(d) == {q \in Procs : d.at[q] = "returned"}

\* pipe(err_pipe) in the process that called daemonize
daemonize_pipe(ok, priv, pidf, endian) ==
    /\ pc = "daemonize"
    /\ dz.at["original"] = "none"
    /\ IF ok
       THEN /\ dz' = [dz EXCEPT !.at["original"] = "fork", !.wr = {"original"},
                                !.priv = priv, !.pidf = pidf, !.endian = endian]
            /\ UNCHANGED <<pc, trace>>
       ELSE /\ dz' = Return([dz EXCEPT !.failed["original"] = err_pipe_create,
                                       !.priv = priv, !.pidf = pidf, !.endian = endian],
                            "original", 0 - err_pipe_create)
            /\ GotoCleanup("daemonize_fail")
    /\ UNCHANGED statevars

\* the first fork()
daemonize_fork(ok) ==
    /\ dz.at["original"] = "fork"
    /\ IF ok
       THEN /\ dz' = [dz EXCEPT !.at["original"] = "close", !.at["child"] = "setsid",
                                !.wr = {"original", "child"}]
            /\ UNCHANGED <<pc, trace>>
       ELSE /\ dz' = Return([dz EXCEPT !.failed["original"] = err_fork],
                            "original", 0 - err_fork)
            /\ GotoCleanup("daemonize_fail")
    /\ UNCHANGED statevars

\* the original: close(err_pipe[1])
parent_close ==
    /\ dz.at["original"] = "close"
    /\ dz' = [dz EXCEPT !.at["original"] = "read", !.wr = @ \ {"original"}]
    /\ UNCHANGED <<pc, trace, statevars>>

\* the original: read returns one byte, or 0 at end of file with rc left at 0;
\* exit(rc)
parent_read ==
    /\ dz.at["original"] = "read"
    /\ dz.pipe # <<>> \/ dz.wr = {}
    /\ dz' = IF dz.pipe # <<>>
             THEN Exit([dz EXCEPT !.pipe = Tail(@), !.pread = "byte"], "original",
                       IntOf(Head(dz.pipe), dz.endian))
             ELSE Exit([dz EXCEPT !.pread = "eof"], "original", 0)
    /\ UNCHANGED <<pc, trace, statevars>>

\* a signal that os_signal_handler is installed for (sa_flags = 0) reaches the
\* original: a read that is blocked returns -1 with EINTR, rc = err_pipe_read, exit(rc)
parent_signal ==
    /\ Running(dz, "original")
    /\ dz.psig > 0
    /\ dz' = IF dz.at["original"] = "read" /\ dz.pipe = <<>> /\ dz.wr # {}
             THEN Exit([dz EXCEPT !.psig = @ - 1, !.pread = "eintr"], "original",
                       err_pipe_read)
             ELSE [dz EXCEPT !.psig = @ - 1]
    /\ UNCHANGED <<pc, trace, statevars>>

\* somebody sends the original a signal while daemonize is under way
external_signal ==
    /\ dz.at["original"] \in {"close", "read"}
    /\ dz.ext < MaxSignals
    /\ dz' = [dz EXCEPT !.psig = @ + 1, !.ext = @ + 1]
    /\ UNCHANGED <<pc, trace, statevars>>

\* os_signal_handler in the original or the first child after the fork: both
\* inherited the handlers and both ends of event_pipe, so the byte goes into the pipe
\* the daemon reads; in the original a blocked read of err_pipe returns EINTR
os_signal_handler_in(q, byte) ==
    /\ q \in {"original", "child"}
    /\ installed
    /\ event_pipe[2] = PipeWr
    /\ dz.at["child"] # "none"
    /\ Running(dz, q)
    /\ Len(dz.hsig) < MaxSignals
    /\ sigpipe' = Append(sigpipe, byte)
    /\ dz' = LET d == [dz EXCEPT !.hsig = Append(@, [proc |-> q, signal |-> byte])] IN
             IF q = "original" /\ dz.at[q] = "read" /\ dz.pipe = <<>> /\ dz.wr # {}
             THEN Exit([d EXCEPT !.pread = "eintr"], "original", err_pipe_read)
             ELSE d
    /\ UNCHANGED <<pc, ud_config, heap, ident, disp, running, tables, event_pipe, installed, nsig,
                   trace, clock, cb, res, calls, hist, loopvars, cfgvars>>

\* the first child: close(err_pipe[0]), setsid()
child_setsid(ok) ==
    /\ dz.at["child"] = "setsid"
    /\ dz' = IF ok THEN [dz EXCEPT !.at["child"] = "fork"]
             ELSE SIGNAL_FAILURE(dz, "child", err_setsid)
    /\ UNCHANGED <<pc, trace, statevars>>

\* a variant in which the first child reports success before it exits
child_fork_reporting(ok) ==
    /\ dz.at["child"] = "fork"
    /\ dz' = IF ok
             THEN Exit([SAFE_SIGNAL(dz, "child", err_none)
                           EXCEPT !.at["daemon"] = "devnull", !.wr = @ \cup {"daemon"}],
                       "child", err_none)
             ELSE SIGNAL_FAILURE(dz, "child", err_daemonize)
    /\ UNCHANGED <<pc, trace, statevars>>

\* the first child: the second fork(), and exit(err_none) once the daemon exists
child_fork(ok) ==
    /\ dz.at["child"] = "fork"
    /\ dz' = IF ok
             THEN Exit([dz EXCEPT !.at["daemon"] = "devnull", !.wr = @ \cup {"daemon"}],
                       "child", err_none)
             ELSE SIGNAL_FAILURE(dz, "child", err_daemonize)
    /\ UNCHANGED <<pc, trace, statevars>>

\* the daemon: open("/dev/null"), dup2 x 3, umask(0)
daemon_devnull(ok) ==
    /\ dz.at["daemon"] = "devnull"
    /\ dz' = IF ok
             THEN [dz EXCEPT !.at["daemon"] = "chdir",
                             !.steps = @ \o <<"devnull", "umask">>]
             ELSE SIGNAL_FAILURE(dz, "daemon", err_dev_null)
    /\ UNCHANGED <<pc, trace, statevars>>

\* the daemon: chdir("/")
daemon_chdir(ok) ==
    /\ dz.at["daemon"] = "chdir"
    /\ dz' = IF ok
             THEN [dz EXCEPT !.at["daemon"] = "pidfile", !.steps = Append(@, "chdir")]
             ELSE SIGNAL_FAILURE(dz, "daemon", err_chdir)
    /\ UNCHANGED <<pc, trace, statevars>>

\* a variant in which a failed open is an error for every user
write_pidfile_strict(open_ok, is_root) == IF ~open_ok THEN 0 - 1 ELSE 0

\* write_pidfile: a failed open is an error for root only
write_pidfile(open_ok, is_root) ==
    IF ~open_ok THEN (IF is_root THEN 0 - 1 ELSE 0) ELSE 0

\* the daemon: pid_file && write_pidfile(...)
daemon_pidfile(open_ok) ==
    /\ dz.at["daemon"] = "pidfile"
    /\ dz' = IF dz.pidf /\ write_pidfile(open_ok, dz.priv) # 0
             THEN SIGNAL_FAILURE(dz, "daemon", err_pid_file)
             ELSE [dz EXCEPT !.at["daemon"] = "privs",
                             !.steps = IF dz.pidf
                                       THEN Append(@, IF open_ok THEN "pidfile"
                                                      ELSE "nopidfile")
                                       ELSE @]
    /\ UNCHANGED <<pc, trace, statevars>>

\* drop_privileges: nothing unless root, then setgid before setuid
drop_privileges(is_root, setgid_ok, setuid_ok) ==
    IF ~is_root THEN 0
    ELSE IF ~setgid_ok THEN 0 - 1
    ELSE IF ~setuid_ok THEN 0 - 1
    ELSE 0

PrivilegeCalls(is_root, setgid_ok) ==
    IF ~is_root THEN <<>>
    ELSE IF ~setgid_ok THEN <<"setgid">>
    ELSE <<"setgid", "setuid">>

\* the daemon: drop_privileges(uid, gid)
daemon_drop_privileges(setgid_ok, setuid_ok) ==
    /\ dz.at["daemon"] = "privs"
    /\ LET d == [dz EXCEPT !.steps = @ \o PrivilegeCalls(dz.priv, setgid_ok)] IN
       dz' = IF drop_privileges(dz.priv, setgid_ok, setuid_ok) # 0
             THEN SIGNAL_FAILURE(d, "daemon", err_drop_privs)
             ELSE [d EXCEPT !.at["daemon"] = "signal"]
    /\ UNCHANGED <<pc, trace, statevars>>

\* the daemon: SIGNAL_SUCCESS(), return err_none to ud_main_loop
daemon_signal_success ==
    /\ dz.at["daemon"] = "signal"
    /\ pc = "daemonize"
    /\ dz' = Return([SAFE_SIGNAL(dz, "daemon", err_none)
                        EXCEPT !.steps = Append(@, "success")],
                    "daemon", err_none)
    /\ pc' = "read_config"
    /\ UNCHANGED <<trace, statevars>>

\* the first child or the daemon dies before it has reported
die(q) ==
    /\ q \in {"child", "daemon"}
    /\ Running(dz, q)
    /\ dz' = [dz EXCEPT !.at[q] = "exited", !.killed = @ \cup {q}, !.wr = @ \ {q},
                        !.psig = IF q = "child" THEN @ + 1 ELSE @]
    /\ UNCHANGED <<pc, trace, statevars>>

\* a variant in which a load that fails ends ud_main_loop
read_config_startup_strict(new) ==
    /\ pc = "read_config"
    /\ udaemon_read_config(new)
    /\ IF ud_config.conf /\ new = 0
       THEN /\ pc' = "cleanup"
            /\ trace' = [trace EXCEPT !.loads = @ + 1, !.path = "config_fail"]
       ELSE /\ pc' = "initialize"
            /\ trace' = [trace EXCEPT !.loads = @ + 1]
    /\ UNCHANGED <<ud_config, heap, ident, dz, disp, running, tables, sigvars, clock, cb, res, calls,
                   hist, loopvars>>

\* the configuration load of startup; its result only logs a warning
read_config_startup(new) ==
    /\ pc = "read_config"
    /\ udaemon_read_config(new)
    /\ pc' = "initialize"
    /\ trace' = [trace EXCEPT !.loads = @ + 1]
    /\ UNCHANGED <<ud_config, heap, ident, dz, disp, running, tables, sigvars, clock, cb, res, calls,
                   hist, loopvars>>

\* udaemon_initialize: the hook is called if there is one
udaemon_initialize ==
    /\ pc = "initialize"
    /\ IF ud_config.initialize
       THEN /\ pc' = "cb"
            /\ cb' = [NoCb EXCEPT !.kind = "initialize"]
            /\ trace' = [trace EXCEPT !.inits = Append(@, [loads |-> trace.loads,
                                                           proc |-> Returned(dz)])]
       ELSE pc' = "loop" /\ UNCHANGED <<cb, trace>>
    /\ UNCHANGED <<ud_config, heap, ident, dz, disp, running, tables, sigvars, clock, res, calls,
                   hist, loopvars, cfgvars>>

\* a variant that logs the failure of the hook and goes on to the while loop
initialize_return_ignored(retval) ==
    /\ pc = "cb"
    /\ cb.kind = "initialize"
    /\ cb' = NoCb
    /\ pc' = "loop"
    /\ trace' = IF retval # 0 THEN [trace EXCEPT !.path = "init_fail"] ELSE trace
    /\ res' = NoRes
    /\ UNCHANGED <<ud_config, heap, ident, dz, disp, running, tables, sigvars, clock, calls,
                   hist, loopvars, cfgvars>>

initialize_return(retval) ==
    /\ pc = "cb"
    /\ cb.kind = "initialize"
    /\ cb' = NoCb
    /\ IF retval # 0
       THEN GotoCleanup("init_fail")
       ELSE pc' = "loop" /\ UNCHANGED trace
    /\ res' = NoRes
    /\ UNCHANGED <<ud_config, heap, ident, dz, disp, running, tables, sigvars, clock, calls,
                   hist, loopvars, cfgvars>>

\* ------------------------------------------------------------- run_tasks
\* a variant whose loop does not test running
loop_body_unchecked(t, n) ==
    /\ pc = "loop"
    /\ pc' = "tasks"
    /\ clock' = t
    /\ now' = t
    /\ ti' = 0
    /\ iter' = n
    /\ passed' = [i \in TaskSlots |-> 0]
    /\ disp' = NoDisp
    /\ UNCHANGED <<di, trace, ud_config, heap, ident, dz, running, tables, sigvars, cb, res,
                   calls, hist, cfgvars>>

\* while (ud_state->running): leave for cleanup, or read the clock (t) and start
\* the task pass of the next iteration, which makes n iterations entered
loop_body(t, n) ==
    /\ pc = "loop"
    /\ IF ~running
       THEN /\ GotoCleanup("terminated")
            /\ UNCHANGED <<clock, loopvars>>
       ELSE /\ pc' = "tasks"
            /\ clock' = t
            /\ now' = t
            /\ ti' = 0
            /\ iter' = n
            /\ passed' = [i \in TaskSlots |-> 0]
            /\ UNCHANGED <<di, trace>>
    /\ disp' = NoDisp
    /\ UNCHANGED <<ud_config, heap, ident, dz, running, tables, sigvars, cb, res, calls, hist, cfgvars>>

\* the loop followed for MaxIter iterations
loop_head(t) ==
    /\ running => iter < MaxIter
    /\ loop_body(t, iter + 1)

\* the loop followed for as long as it runs, its iterations counted up to MaxIter
loop_forever(t) == loop_body(t, IF iter < MaxIter THEN iter + 1 ELSE iter)

\* a variant of the test that takes a deadline equal to now as reached
TaskDue_inclusive(taskdef, t) == taskdef.task # NULL /\ taskdef.next_deadline <= t

\* the test of run_tasks on one slot
TaskDue(taskdef, t) == taskdef.task # NULL /\ taskdef.next_deadline < t

\* run_tasks' for loop from index ti on: the slots that are not due are passed
\* over, the first due one has its task called, and past the last slot the pass ends
DueFrom(from) == {i \in TaskSlots : i >= from /\ TaskDue(task_queue[i], now)}

run_tasks_step ==
    /\ pc = "tasks"
    /\ IF DueFrom(ti) = {}
       THEN /\ pc' = "poll"
            /\ ti' = TASK_MAX
            /\ UNCHANGED <<cb, hist, passed>>
       ELSE LET i == Min(DueFrom(ti)) IN
            /\ pc' = "cb"
            /\ ti' = i
            /\ cb' = [NoCb EXCEPT !.kind = "task", !.slot = i]
            /\ hist' = [hist EXCEPT ![i].runs = @ + 1, ![i].lastT = now,
                                     ![i].prevT = hist[i].lastT]
            /\ passed' = [passed EXCEPT ![i] = @ + 1]
    /\ res' = NoRes
    /\ UNCHANGED <<ud_config, heap, ident, dz, disp, running, tables, sigvars, clock, now, di, iter,
                   calls, cfgvars, trace>>

\* a variant in which only a negative return value removes the task
TaskRemoved_negative(retval) == retval < 0

\* retval <= 0 removes the task
TaskRemoved(retval) == retval <= 0

\* a variant that leaves the deadline at the time of the call
NewDeadline_now(t, retval) == t

\* the deadline of a rescheduled task
NewDeadline(t, retval) == t + retval

\* the interval kept for a rescheduled task: (uint16_t) retval
NewInterval(retval) == retval % UINT16_MOD

\* a variant that moves the deadline on by the interval and looks at the same slot
\* again, so that a task that fell behind catches up within the pass
task_return_catchup(retval) ==
    LET i == cb.slot IN
    /\ pc = "cb"
    /\ cb.kind = "task"
    /\ task_queue' = IF TaskRemoved(retval)
                     THEN [task_queue EXCEPT ![i].task = NULL]
                     ELSE [task_queue EXCEPT ![i].interval = NewInterval(retval),
                                             ![i].next_deadline = @ + retval]
    /\ hist' = IF cb.stale THEN hist
               ELSE [hist EXCEPT ![i].rets = Append(@, retval)]
    /\ cb' = NoCb
    /\ ti' = IF TaskRemoved(retval) THEN i + 1 ELSE i
    /\ pc' = "tasks"
    /\ res' = Result("task_return", retval, NULL, "none", i, {})
    /\ UNCHANGED <<ud_config, heap, ident, dz, disp, running, pollfds, event_handlers, sigvars, clock, now,
                   di, iter, passed, calls, cfgvars, trace>>

\* the task returned retval: the rest of the loop body, and i++
task_return(retval) ==
    LET i == cb.slot IN
    /\ pc = "cb"
    /\ cb.kind = "task"
    /\ task_queue' = IF TaskRemoved(retval)
                     THEN [task_queue EXCEPT ![i].task = NULL]
                     ELSE [task_queue EXCEPT ![i].interval = NewInterval(retval),
                                             ![i].next_deadline = NewDeadline(now, retval)]
    /\ hist' = IF cb.stale THEN hist
               ELSE [hist EXCEPT ![i].rets = Append(@, retval)]
    /\ cb' = NoCb
    /\ ti' = i + 1
    /\ pc' = "tasks"
    /\ res' = Result("task_return", retval, NULL, "none", i, {})
    /\ UNCHANGED <<ud_config, heap, ident, dz, disp, running, pollfds, event_handlers, sigvars, clock, now,
                   di, iter, passed, calls, cfgvars, trace>>

\* ------------------------------------------------------- poll and dispatch
\* slots poll() may report for reasons the model does not decide (application fds)
PollableSlots == {i \in FdSlots : pollfds[i].fd >= 0 /\ pollfds[i].fd # PipeRd}

\* what poll() stores in revents: nothing for fd < 0, POLLIN for the self-pipe when
\* it holds a byte, and POLLIN for the application descriptors in ready
PollRevents(ready) ==
    [i \in FdSlots |->
        IF pollfds[i].fd < 0 THEN {}
        ELSE IF pollfds[i].fd = PipeRd
        THEN (IF sigpipe # <<>> THEN pollfds[i].events ELSE {})
        ELSE (IF i \in ready THEN {"POLLIN"} ELSE {})]

PollOutcomes == {"EINTR", "EFAULT", "count"}

\* a variant in which an interrupted poll ends the loop like any other failure
poll_step_fatal(outcome, ready) ==
    LET rev == PollRevents(ready)
        count == Cardinality({i \in FdSlots : rev[i] # {}})
    IN
    /\ pc = "poll"
    /\ IF outcome \in {"EINTR", "EFAULT"}
       THEN /\ GotoCleanup("poll_fail")
            /\ ready = {}
            /\ disp' = [NoDisp EXCEPT !.poll = outcome]
            /\ UNCHANGED <<pollfds, cb, di>>
       ELSE /\ pollfds' = [i \in FdSlots |-> [pollfds[i] EXCEPT !.revents = rev[i]]]
            /\ disp' = IF count = 0 THEN [NoDisp EXCEPT !.poll = "zero"]
                       ELSE [NoDisp EXCEPT !.rev = rev, !.eh = event_handlers,
                                           !.poll = "ready"]
            /\ IF count = 0
               THEN IF ud_config.idle_handler
                    THEN pc' = "cb" /\ cb' = [NoCb EXCEPT !.kind = "idle"] /\ UNCHANGED di
                    ELSE pc' = "loop" /\ UNCHANGED <<cb, di>>
               ELSE pc' = "dispatch" /\ di' = 0 /\ UNCHANGED cb
            /\ UNCHANGED trace
    /\ UNCHANGED <<ud_config, heap, ident, dz, running, event_handlers, task_queue, sigvars, clock,
                   now, ti, iter, passed, res, calls, hist, cfgvars>>

poll_step(outcome, ready) ==
    LET rev == PollRevents(ready)
        count == Cardinality({i \in FdSlots : rev[i] # {}})
    IN
    /\ pc = "poll"
    /\ IF outcome = "EINTR"
       THEN /\ pc' = "loop"
            /\ ready = {}
            /\ disp' = [NoDisp EXCEPT !.poll = "EINTR"]
            /\ UNCHANGED <<pollfds, trace, cb, di>>
       ELSE IF outcome = "EFAULT"
       THEN /\ GotoCleanup("poll_fail")
            /\ ready = {}
            /\ disp' = [NoDisp EXCEPT !.poll = "EFAULT"]
            /\ UNCHANGED <<pollfds, cb, di>>
       ELSE /\ pollfds' = [i \in FdSlots |-> [pollfds[i] EXCEPT !.revents = rev[i]]]
            /\ disp' = IF count = 0 THEN [NoDisp EXCEPT !.poll = "zero"]
                       ELSE [NoDisp EXCEPT !.rev = rev, !.eh = event_handlers,
                                           !.poll = "ready"]
            /\ IF count = 0
               THEN IF ud_config.idle_handler
                    THEN pc' = "cb" /\ cb' = [NoCb EXCEPT !.kind = "idle"] /\ UNCHANGED di
                    ELSE pc' = "loop" /\ UNCHANGED <<cb, di>>
               ELSE pc' = "dispatch" /\ di' = 0 /\ UNCHANGED cb
            /\ UNCHANGED trace
    /\ UNCHANGED <<ud_config, heap, ident, dz, running, event_handlers, task_queue, sigvars, clock,
                   now, ti, iter, passed, res, calls, hist, cfgvars>>

idle_return ==
    /\ pc = "cb"
    /\ cb.kind = "idle"
    /\ cb' = NoCb
    /\ pc' = "loop"
    /\ res' = NoRes
    /\ UNCHANGED <<ud_config, heap, ident, dz, disp, running, tables, sigvars, clock, calls, hist,
                   loopvars, cfgvars, trace>>

\* a variant that stops the loop on SIG_TERM before the signal hook is called
main_signal_handler_early(i, new) ==
    LET signal == Head(sigpipe) IN
    /\ sigpipe' = Tail(sigpipe)
    /\ IF signal = SIG_HUP THEN udaemon_read_config(new) ELSE UNCHANGED cfgvars
    /\ trace' = [trace EXCEPT !.fwd = Append(@, [signal |-> signal,
                                                 hook |-> ud_config.signal_handler,
                                                 before |-> cfglog.parses,
                                                 parses |-> cfglog'.parses,
                                                 run |-> running])]
    /\ running' = IF signal = SIG_TERM THEN FALSE ELSE running
    /\ IF ud_config.signal_handler
       THEN /\ pc' = "cb"
            /\ cb' = [NoCb EXCEPT !.kind = "signal", !.slot = i, !.sig = signal]
            /\ di' = i
       ELSE /\ di' = i + 1
            /\ UNCHANGED <<pc, cb>>

\* main_signal_handler up to the call of the application's signal hook: one byte
\* read from the self-pipe, the configuration reloaded on SIG_HUP (new is the
\* parser's result); without a hook the signal is logged and the handler finishes
main_signal_handler(i, new) ==
    LET signal == Head(sigpipe) IN
    /\ sigpipe' = Tail(sigpipe)
    /\ IF signal = SIG_HUP THEN udaemon_read_config(new) ELSE UNCHANGED cfgvars
    /\ trace' = [trace EXCEPT !.fwd = Append(@, [signal |-> signal,
                                                 hook |-> ud_config.signal_handler,
                                                 before |-> cfglog.parses,
                                                 parses |-> cfglog'.parses,
                                                 run |-> running])]
    /\ IF ud_config.signal_handler
       THEN /\ pc' = "cb"
            /\ cb' = [NoCb EXCEPT !.kind = "signal", !.slot = i, !.sig = signal]
            /\ di' = i
            /\ UNCHANGED running
       ELSE /\ running' = IF signal = SIG_TERM THEN FALSE ELSE running
            /\ di' = i + 1
            /\ UNCHANGED <<pc, cb>>

\* callback(ud_state, &ud_state->pollfds[i], context) with the callback and the
\* context read from slot i
Invoke(i) ==
    [disp EXCEPT !.inv[i] = Append(@, [callback |-> event_handlers[i].callback,
                                       pollfd |-> i,
                                       context |-> event_handlers[i].context])]

\* a variant of the scan that starts one slot after from
ReadyFrom_after(from) == {i \in FdSlots : i > from /\ pollfds[i].revents # {}}

\* the dispatch for loop from index di on: the slots without revents are passed
\* over, the first one with revents has its callback called, and past the last
\* slot the loop body ends
ReadyFrom(from) == {i \in FdSlots : i >= from /\ pollfds[i].revents # {}}

dispatch_step(new) ==
    /\ pc = "dispatch"
    /\ IF ReadyFrom(di) = {}
       THEN /\ pc' = "loop"
            /\ di' = FD_MAX
            /\ UNCHANGED <<running, cb, sigpipe, cfgvars, disp, trace>>
       ELSE LET i == Min(ReadyFrom(di))
                callback == event_handlers[i].callback
            IN
            IF callback \in {NULL, WILD}
            THEN /\ pc' = "crashed"
                 /\ di' = i
                 /\ UNCHANGED <<running, cb, sigpipe, cfgvars, disp, trace>>
            ELSE IF callback = "main_signal_handler"
            THEN IF sigpipe = <<>>
                 THEN /\ pc' = "blocked"
                      /\ di' = i
                      /\ UNCHANGED <<running, cb, sigpipe, cfgvars, disp, trace>>
                 ELSE main_signal_handler(i, new) /\ disp' = Invoke(i)
            ELSE /\ pc' = "cb"
                 /\ di' = i
                 /\ cb' = [NoCb EXCEPT !.kind = "handler", !.slot = i]
                 /\ disp' = Invoke(i)
                 /\ UNCHANGED <<running, sigpipe, cfgvars, trace>>
    /\ UNCHANGED <<ud_config, heap, ident, dz, tables, event_pipe, installed, nsig, clock, now, ti,
                   iter, passed, res, calls, hist>>

\* the signal hook returned: SIG_TERM ends the loop, main_signal_handler returns RES_OK
signal_hook_return ==
    /\ pc = "cb"
    /\ cb.kind = "signal"
    /\ running' = IF cb.sig = SIG_TERM THEN FALSE ELSE running
    /\ di' = cb.slot + 1
    /\ cb' = NoCb
    /\ pc' = "dispatch"
    /\ res' = Result("signal_return", cb.sig, NULL, "none", cb.slot, {})
    /\ UNCHANGED <<ud_config, heap, ident, dz, disp, tables, sigvars, clock, now, ti, iter,
                   passed, calls, hist, cfgvars, trace>>

HandlerResults == {"RES_OK", "RES_ERROR"}

\* a variant in which a failing handler has its whole slot cleared
InvalidateSlot_clear(pf, i) == [pf EXCEPT ![i] = [fd |-> -1, events |-> {}, revents |-> {}]]

\* pollfds[i].fd = -1
InvalidateSlot(pf, i) == [pf EXCEPT ![i].fd = -1]

\* an application handler returned: RES_ERROR closes the fd and sets it to -1
handler_return(result) ==
    LET i == cb.slot IN
    /\ pc = "cb"
    /\ cb.kind = "handler"
    /\ pollfds' = IF result = "RES_ERROR" THEN InvalidateSlot(pollfds, i) ELSE pollfds
    /\ disp' = IF result = "RES_ERROR"
               THEN [disp EXCEPT !.closed = Append(@, pollfds[i].fd)]
               ELSE disp
    /\ di' = i + 1
    /\ cb' = NoCb
    /\ pc' = "dispatch"
    /\ res' = Result("handler_return", result, NULL, "none", i, {})
    /\ UNCHANGED <<ud_config, heap, ident, dz, running, event_handlers, task_queue, sigvars, clock,
                   now, ti, iter, passed, calls, hist, cfgvars, trace>>

\* ------------------------------------------------------------------ cleanup
\* the end of the cleanup label: the installed configuration released, logging
\* shut down, both ends of event_pipe closed, return 0
cleanup_finish ==
    /\ udaemon_replace_config(0)
    /\ UNCHANGED <<nobj, cfglog>>
    /\ pc' = "returned"

\* the process that is executing ud_main_loop: the one daemonize returned in, the
\* process that called ud_main_loop when daemonize was not called
Self == IF Returned(dz) = {} THEN "original" ELSE CHOOSE q \in Returned(dz) : TRUE

\* the head of the cleanup label: unlink(ud_cfg->pid_file) when a path is configured
unlink_pid_file(tr) ==
    IF ud_config.pid_file THEN [tr EXCEPT !.unlinked = @ \cup {Self}] ELSE tr

\* the cleanup label up to the call of the application's cleanup hook
udaemon_cleanup ==
    /\ pc = "cleanup"
    /\ IF ud_config.cleanup
       THEN /\ pc' = "cb"
            /\ cb' = [NoCb EXCEPT !.kind = "cleanup"]
            /\ trace' = [unlink_pid_file(trace) EXCEPT !.hooks = @ + 1]
            /\ UNCHANGED cfgvars
       ELSE /\ cleanup_finish
            /\ trace' = [unlink_pid_file(trace) EXCEPT !.cleanups = @ + 1, !.ret = 0]
            /\ UNCHANGED cb
    /\ UNCHANGED <<ud_config, heap, ident, dz, disp, running, tables, sigvars, clock, res, calls, hist,
                   loopvars>>

\* the cleanup hook returned retval, which only logs a warning
cleanup_return(retval) ==
    /\ pc = "cb"
    /\ cb.kind = "cleanup"
    /\ cb' = NoCb
    /\ cleanup_finish
    /\ trace' = [trace EXCEPT !.cleanups = @ + 1, !.hookret = retval, !.ret = 0]
    /\ res' = NoRes
    /\ UNCHANGED <<ud_config, heap, ident, dz, disp, running, tables, sigvars, clock, calls, hist,
                   loopvars>>

\* ------------------------------------------------------------ specification
Times == clock .. MaxTime

\* the API calls of the application, with the arguments it passes
AppCalls ==
    \/ \E fd \in AppFds, callback \in AppCallbacks :
            ud_add_event_handler(fd, {"POLLIN"}, callback, AppContext)
    \/ \E id \in RemoveIds, layout \in Layouts : ud_remove_event_handler(id, layout)
    \/ \E interval \in AppIntervals, task \in AppTasks, t \in Times :
            ud_schedule_task(interval, task, AppContext, t)
    \/ ud_terminate

Next ==
    \/ calls < MaxCalls /\ AppCalls
    \/ \E byte \in {SIG_TERM, SIG_HUP, SIG_USR1, SIG_USR2} : os_signal_handler(byte)
    \/ ud_main_loop_enter
    \/ \E ok \in BOOLEAN : create_event_pipe(ok)
    \/ \E outcome \in DaemonizeOutcomes : daemonize(outcome)
    \/ \E new \in ParserResults : read_config_startup(new)
    \/ udaemon_initialize
    \/ \E retval \in {0, 1} : initialize_return(retval)
    \/ \E t \in Times : loop_head(t)
    \/ run_tasks_step
    \/ \E retval \in TaskRets : task_return(retval)
    \/ \E outcome \in PollOutcomes, ready \in SUBSET PollableSlots :
            poll_step(outcome, ready)
    \/ idle_return
    \/ \E new \in ParserResults : dispatch_step(new)
    \/ signal_hook_return
    \/ \E result \in HandlerResults : handler_return(result)
    \/ udaemon_cleanup
    \/ \E retval \in {0, 1} : cleanup_return(retval)

Spec == Init /\ [][Next]_vars

\* the application between ud_init and ud_main_loop, registering and removing
\* handlers and scheduling tasks until the tables are full; no time passes
NextReg ==
    /\ pc = "app"
    /\ calls < MaxRegCalls
    /\ \/ \E fd \in AppFds, callback \in AppCallbacks :
                ud_add_event_handler(fd, {"POLLIN"}, callback, AppContext)
       \/ \E id \in RemoveIds, layout \in Layouts : ud_remove_event_handler(id, layout)
       \/ ud_schedule_task(0, "app_task", AppContext, clock)

InitReg == ud_init /\ ud_config.foreground /\ ud_config.cleanup

SpecReg == InitReg /\ [][NextReg]_vars

\* a foreground daemon without hooks whose tasks schedule further tasks and stop the
\* loop; no signal arrives and no descriptor becomes ready
NextTasks ==
    \/ /\ calls < MaxTaskCalls
       /\ \/ \E interval \in AppIntervals, t \in Times :
                ud_schedule_task(interval, "app_task", AppContext, t)
          \/ ud_terminate
    \/ ud_main_loop_enter
    \/ create_event_pipe(TRUE)
    \/ \E new \in ParserResults : read_config_startup(new)
    \/ udaemon_initialize
    \/ \E t \in Times : loop_head(t)
    \/ run_tasks_step
    \/ \E retval \in TaskRets : task_return(retval)
    \/ \E outcome \in {"EINTR", "count"} : poll_step(outcome, {})
    \/ udaemon_cleanup

InitTasks ==
    /\ ud_init
    /\ ud_config.foreground
    /\ ~ud_config.initialize

SpecTasks == InitTasks /\ [][NextTasks]_vars

\* the ways into and out of ud_main_loop: every configuration, every startup
\* failure, signals, poll failures and ud_terminate; no handler or task is
\* registered and no time passes
NextExit ==
    \/ calls < MaxExitCalls /\ ud_terminate
    \/ \E byte \in {SIG_TERM, SIG_HUP, SIG_USR1, SIG_USR2} : os_signal_handler(byte)
    \/ ud_main_loop_enter
    \/ \E ok \in BOOLEAN : create_event_pipe(ok)
    \/ \E outcome \in DaemonizeOutcomes : daemonize(outcome)
    \/ \E new \in ParserResults : read_config_startup(new)
    \/ udaemon_initialize
    \/ \E retval \in {0, 1} : initialize_return(retval)
    \/ loop_head(clock)
    \/ run_tasks_step
    \/ \E outcome \in PollOutcomes : poll_step(outcome, {})
    \/ idle_return
    \/ \E new \in ParserResults : dispatch_step(new)
    \/ signal_hook_return
    \/ udaemon_cleanup
    \/ \E retval \in {0, 1} : cleanup_return(retval)

SpecExit == Init /\ [][NextExit]_vars

\* an application that registers a handler and a task and then runs ud_main_loop:
\* every configuration, every outcome of the startup steps, and a steady state in
\* which the task falls due, descriptors become ready and poll fails
NextAbort ==
    \/ /\ pc = "app"
       /\ calls < MaxAbortCalls
       /\ \/ ud_add_event_handler(5, {"POLLIN"}, "app_event_handler", AppContext)
          \/ ud_schedule_task(0, "app_task", AppContext, clock)
    \/ ud_main_loop_enter
    \/ \E ok \in BOOLEAN : create_event_pipe(ok)
    \/ \E outcome \in DaemonizeOutcomes : daemonize(outcome)
    \/ \E new \in ParserResults : read_config_startup(new)
    \/ udaemon_initialize
    \/ \E retval \in {0, 1} : initialize_return(retval)
    \/ \E t \in {clock, MaxTime} : loop_head(t)
    \/ run_tasks_step
    \/ \E retval \in {-1, 0} : task_return(retval)
    \/ \E outcome \in PollOutcomes, ready \in SUBSET PollableSlots :
            poll_step(outcome, ready)
    \/ idle_return
    \/ \E new \in ParserResults : dispatch_step(new)
    \/ \E result \in HandlerResults : handler_return(result)
    \/ udaemon_cleanup
    \/ \E retval \in {0, 1} : cleanup_return(retval)

SpecAbort == Init /\ [][NextAbort]_vars

\* the life of the state object: ud_main_loop entered and left in every way, and
\* ud_destroy called before it, after it and again
NextDestroy ==
    \/ NextExit
    \/ \E handle \in {NULL, "state"}, outcome \in DoubleFree : ud_destroy(handle, outcome)

SpecDestroy == Init /\ [][NextDestroy]_vars

\* the application parsing identities, every entry of up to MaxLen characters
NextParse == \E entry \in Entries : ud_parse_uid(entry)

InitParse ==
    /\ ud_init
    /\ ~ud_config.foreground

SpecParse == InitParse /\ [][NextParse]_vars

\* a foreground daemon that is left alone with its signals: up to MaxQueued of
\* them arrive, one after the other or while the loop is busy, poll returns when
\* the self-pipe holds a byte or is interrupted, and the hooks return
NextSignals ==
    \/ \E byte \in {SIG_TERM, SIG_HUP, SIG_USR1} : write_signal_event(byte, MaxQueued)
    \/ ud_main_loop_enter
    \/ \E ok \in BOOLEAN : create_event_pipe(ok)
    \/ \E new \in ParserResults : read_config_startup(new)
    \/ udaemon_initialize
    \/ \E retval \in {0, 1} : initialize_return(retval)
    \/ loop_forever(clock)
    \/ run_tasks_step
    \/ poll_step("EINTR", {})
    \/ poll_step("count", {})
    \/ idle_return
    \/ \E new \in ParserResults : dispatch_step(new)
    \/ signal_hook_return
    \/ udaemon_cleanup
    \/ \E retval \in {0, 1} : cleanup_return(retval)

InitSignals == ud_init /\ ud_config.foreground

SpecSignals == InitSignals /\ [][NextSignals]_vars

\* a foreground daemon in steady state for as long as it runs: the application
\* registers handlers before ud_main_loop or from its callbacks, signals arrive,
\* descriptors become ready; poll does not fail and every callback returns
LiveSteps ==
    \/ ud_main_loop_enter
    \/ \E ok \in BOOLEAN : create_event_pipe(ok)
    \/ \E new \in ParserResults : read_config_startup(new)
    \/ udaemon_initialize
    \/ \E retval \in {0, 1} : initialize_return(retval)
    \/ loop_forever(clock)
    \/ run_tasks_step
    \/ idle_return
    \/ \E new \in ParserResults : dispatch_step(new)
    \/ signal_hook_return
    \/ \E result \in HandlerResults : handler_return(result)
    \/ udaemon_cleanup
    \/ \E retval \in {0, 1} : cleanup_return(retval)

PollReturnsCount == \E ready \in SUBSET PollableSlots : poll_step("count", ready)

NextLive ==
    \/ /\ calls < MaxLiveCalls
       /\ ud_add_event_handler(5, {"POLLIN"}, "app_event_handler", AppContext)
    \/ \E byte \in {SIG_TERM, SIG_HUP} : os_signal_handler(byte)
    \/ poll_step("EINTR", {})
    \/ PollReturnsCount
    \/ LiveSteps

InitLive == ud_init /\ ud_config.foreground

\* poll is interrupted only when a signal arrives, so it returns a count again and
\* again; the loop and the callbacks keep going
SpecLive ==
    /\ InitLive
    /\ [][NextLive]_vars
    /\ WF_vars(LiveSteps)
    /\ SF_vars(PollReturnsCount)

\* C11: a SIGTERM or SIGINT that arrives while the loop is in steady state leads to
\* running = false, the loop left, the cleanup run and ud_main_loop returned
TermPending ==
    /\ pc \in {"loop", "tasks", "poll", "dispatch", "cb"}
    /\ \E k \in 1 .. Len(sigpipe) : sigpipe[k] = SIG_TERM

C11_TermLeadsToReturn ==
    /\ TermPending ~> ~running
    /\ TermPending ~> (pc = "returned" /\ trace.cleanups = 1)

\* a foreground daemon without hooks whose handlers are registered before the loop
\* and from handlers, removed from handlers, and return RES_OK or RES_ERROR;
\* descriptors become ready, SIGUSR1 arrives, a handler calls ud_terminate
DispContexts == {"ctx", "ctx2"}

NextDispatch ==
    \/ /\ calls < MaxDispCalls
       /\ \/ \E context \in DispContexts :
                ud_add_event_handler(5, {"POLLIN"}, "app_event_handler", context)
          \/ \E id \in 1 .. 2 : pc = "cb" /\ ud_remove_event_handler(id, "lp64")
          \/ pc = "cb" /\ ud_terminate
    \/ os_signal_handler(SIG_USR1)
    \/ ud_main_loop_enter
    \/ create_event_pipe(TRUE)
    \/ \E new \in ParserResults : read_config_startup(new)
    \/ udaemon_initialize
    \/ loop_head(clock)
    \/ run_tasks_step
    \/ PollReturnsCount
    \/ \E new \in ParserResults : dispatch_step(new)
    \/ \E result \in HandlerResults : handler_return(result)
    \/ udaemon_cleanup

InitDispatch ==
    /\ ud_init
    /\ ud_config.foreground
    /\ ~ud_config.initialize

SpecDispatch == InitDispatch /\ [][NextDispatch]_vars

\* a foreground daemon without hooks whose task and handlers register and remove
\* handlers while the loop runs: handles 1 and 2 and the id FD_MAX are removed,
\* from a task (which is due in the first iteration) and from a handler, descriptors become ready in every combination, a signal
\* makes the self-pipe ready, handlers fail
NextChurn ==
    \/ /\ calls < MaxChurnCalls
       /\ \/ ud_add_event_handler(5, {"POLLIN"}, "app_event_handler", AppContext)
          \/ \E id \in {1, 2, FD_MAX} : pc = "cb" /\ ud_remove_event_handler(id, "lp64")
          \/ pc = "app" /\ ud_schedule_task(0, "app_task", AppContext, clock)
    \/ os_signal_handler(SIG_USR1)
    \/ ud_main_loop_enter
    \/ create_event_pipe(TRUE)
    \/ \E new \in ParserResults : read_config_startup(new)
    \/ udaemon_initialize
    \/ loop_head(MaxTime)
    \/ run_tasks_step
    \/ task_return(0 - 1)
    \/ PollReturnsCount
    \/ \E new \in ParserResults : dispatch_step(new)
    \/ \E result \in HandlerResults : handler_return(result)

SpecChurn == InitDispatch /\ [][NextChurn]_vars

\* a foreground daemon with a handler and a task whose callbacks call ud_terminate
\* and which receives SIGTERM, in any iteration and at any point of it
NextStop ==
    \/ /\ calls < MaxStopCalls
       /\ \/ pc = "app" /\ ud_add_event_handler(5, {"POLLIN"}, "app_event_handler",
                                                  AppContext)
          \/ pc = "app" /\ ud_schedule_task(0, "app_task", AppContext, clock)
          \/ pc = "cb" /\ ud_terminate
    \/ os_signal_handler(SIG_TERM)
    \/ ud_main_loop_enter
    \/ create_event_pipe(TRUE)
    \/ \E new \in ParserResults : read_config_startup(new)
    \/ udaemon_initialize
    \/ \E retval \in {0, 1} : initialize_return(retval)
    \/ loop_head(MaxTime)
    \/ run_tasks_step
    \/ \E retval \in {0, 1} : task_return(retval)
    \/ poll_step("EINTR", {})
    \/ PollReturnsCount
    \/ idle_return
    \/ \E new \in ParserResults : dispatch_step(new)
    \/ signal_hook_return
    \/ \E result \in HandlerResults : handler_return(result)
    \/ udaemon_cleanup
    \/ \E retval \in {0, 1} : cleanup_return(retval)

SpecStop == InitLive /\ [][NextStop]_vars

\* a daemon (foreground = false) from ud_init to the return of daemonize, with the
\* original process, the first child and the daemon interleaved
NextDaemon ==
    \/ ud_main_loop_enter
    \/ \E ok \in BOOLEAN : create_event_pipe(ok)
    \/ \E ok, priv \in BOOLEAN, endian \in {"little", "big"} :
            daemonize_pipe(ok, priv, ud_config.pid_file, endian)
    \/ \E ok \in BOOLEAN : daemonize_fork(ok)
    \/ parent_close
    \/ parent_read
    \/ parent_signal
    \/ external_signal
    \/ \E ok \in BOOLEAN : child_setsid(ok)
    \/ \E ok \in BOOLEAN : child_fork(ok)
    \/ \E ok \in BOOLEAN : daemon_devnull(ok)
    \/ \E ok \in BOOLEAN : daemon_chdir(ok)
    \/ \E open_ok \in BOOLEAN : daemon_pidfile(open_ok)
    \/ \E setgid_ok, setuid_ok \in BOOLEAN : daemon_drop_privileges(setgid_ok, setuid_ok)
    \/ daemon_signal_success
    \/ \E new \in ParserResults : read_config_startup(new)
    \/ \E q \in {"child", "daemon"} : die(q)

InitDaemon == ud_init /\ ~ud_config.foreground

\* the startup of ud_main_loop up to the while loop or the cleanup label, in the
\* foreground and as a daemon with its processes interleaved
NextStartup ==
    \/ NextDaemon
    \/ udaemon_initialize
    \/ \E retval \in {0, 1} : initialize_return(retval)

SpecStartup == ud_init /\ [][NextStartup]_vars

\* the startup of ud_main_loop and, where it fails, the cleanup label to the return
NextPidFile ==
    \/ NextStartup
    \/ udaemon_cleanup
    \/ \E retval \in {0, 1} : cleanup_return(retval)

SpecPidFile == ud_init /\ [][NextPidFile]_vars

\* a daemon from ud_init into its loop, with signals that reach the original or
\* the first child while daemonize is under way and signals that reach the daemon
NextHandshake ==
    \/ NextDaemon
    \/ \E q \in {"original", "child"}, byte \in {SIG_TERM, SIG_USR1} :
            os_signal_handler_in(q, byte)
    \/ os_signal_handler(SIG_TERM)
    \/ udaemon_initialize
    \/ \E retval \in {0, 1} : initialize_return(retval)
    \/ loop_forever(clock)
    \/ run_tasks_step
    \/ poll_step("count", {})
    \/ \E new \in ParserResults : dispatch_step(new)
    \/ signal_hook_return
    \/ udaemon_cleanup
    \/ \E retval \in {0, 1} : cleanup_return(retval)

SpecHandshake == InitDaemon /\ [][NextHandshake]_vars

SpecDaemon == InitDaemon /\ [][NextDaemon]_vars

\* -------------------------------------------------------------- properties
Occupied(pf, id) == id \in FdSlots /\ pf[id].fd >= 0
OtherHandlersKept(idx) ==
    \A j \in FdSlots \ {idx} : /\ pollfds[j] = res.pre.pollfds[j]
                               /\ event_handlers[j] = res.pre.event_handlers[j]
TablesKept ==
    /\ pollfds = res.pre.pollfds
    /\ event_handlers = res.pre.event_handlers
    /\ task_queue = res.pre.task_queue
Last(seq) == seq[Len(seq)]

\* C1: ud_add_event_handler never hands handle 0 to the application, also not
\* between ud_init and ud_main_loop, and once ud_main_loop has registered the read
\* end of the signal pipe, main_signal_handler is the registration in slot 0
C1_HandleZeroReserved ==
    /\ res.op = "add" /\ res.rc = "OK" => res.id # 0
    /\ \A i \in FdSlots : event_handlers[i].callback = "main_signal_handler" => i = 0

\* C2: ud_remove_event_handler with an id that names no occupied slot (0, FD_MAX or
\* more, or a slot that is already free) returns an error and leaves the tables as
\* they were, so the second of two removals of one handle fails
C2_RemoveRejectsUnoccupied ==
    res.op = "remove" /\ (res.arg = 0 \/ ~Occupied(res.pre.pollfds, res.arg))
        => res.rc = "EINVAL" /\ TablesKept

\* C3: with every handler slot occupied ud_add_event_handler of a callback, and with
\* every task slot occupied ud_schedule_task, fails with ENOMEM and leaves the tables
\* as they were
C3_FullTablesReject ==
    /\ /\ res.op = "add"
       /\ res.cbk # NULL
       /\ \A i \in FdSlots : res.pre.pollfds[i].fd >= 0
       => res.rc = "ENOMEM" /\ TablesKept
    /\ /\ res.op = "schedule"
       /\ \A i \in TaskSlots : res.pre.task_queue[i].task # NULL
       => res.rc = "ENOMEM" /\ TablesKept

C3_TaskTableFull == res.op = "schedule" /\ res.rc = "ENOMEM"

C5_TaskRemovedOnceDone ==
    /\ res.op = "task_return" /\ res.arg <= 0
       => /\ task_queue[res.id].task = NULL
          /\ \A j \in TaskSlots \ {res.id} : task_queue[j] = res.pre.task_queue[j]
          /\ pollfds = res.pre.pollfds
          /\ event_handlers = res.pre.event_handlers
          /\ running = res.run
          /\ pc = "tasks"
    /\ pc = "cb" /\ cb.kind = "task"
       => hist[cb.slot].rets = <<>> \/ Last(hist[cb.slot].rets) > 0
    /\ \A i \in TaskSlots :
          hist[i].rets = <<1, 0>> => hist[i].runs = 2 /\ task_queue[i].task = NULL

C5_OneThenZero ==
    /\ res.op = "task_return"
    /\ hist[res.id].rets = <<1, 0>>
    /\ \E j \in TaskSlots \ {res.id} : task_queue[j].task # NULL

\* C6: a task that returned n > 0 at clock reading t is next called at a clock
\* reading of t + n or later
C6_RescheduleLaw ==
    pc = "cb" /\ cb.kind = "task" /\ hist[cb.slot].rets # <<>>
        => hist[cb.slot].lastT - hist[cb.slot].prevT >= Last(hist[cb.slot].rets)

C6_CalledAgain ==
    /\ pc = "cb" /\ cb.kind = "task"
    /\ hist[cb.slot].rets # <<>>
    /\ Last(hist[cb.slot].rets) > 1

\* C7: a task scheduled with interval 0 has a deadline that is not after the clock,
\* and run_tasks calls it in the first loop iteration after the registration, whether
\* or not the clock has moved
C7_IntervalZeroRunsAtOnce ==
    \A i \in TaskSlots :
        task_queue[i].task # NULL /\ hist[i].regIv = 0 /\ hist[i].runs = 0
            => /\ task_queue[i].next_deadline <= clock
               /\ pc = "poll" => hist[i].regIter >= iter

\* C8: one pass of run_tasks calls the task of a slot at most once
C8_OncePerPass == \A i \in TaskSlots : passed[i] <= 1

C8_RescheduledInPass ==
    /\ res.op = "task_return" /\ res.arg > 0
    /\ passed[res.id] = 1
    /\ task_queue[res.id].task # NULL

\* C9: after a task returned r > 0, 65536 and more included, the interval kept for
\* its next call is r and its deadline is now + r
C9_IntervalPreserved ==
    res.op = "task_return" /\ res.arg > 0
        => /\ task_queue[res.id].interval = res.arg
           /\ task_queue[res.id].next_deadline = now + res.arg

PidOpenFailed == dz.failed["daemon"] = err_pid_file \/ "nopidfile" \in Range(dz.steps)

\* C12: once the first fork succeeded and while no process is killed, the original
\* exits with the one code that was written to the pipe: 0 exactly if the daemon
\* wrote err_none, else the code of the step that failed
C12_ExitStatusIsOutcome ==
    dz.status["original"] # NoId /\ dz.killed = {}
        => /\ Len(dz.sent) = 1
           /\ dz.status["original"] = dz.sent[1].rc
           /\ dz.status["original"] = 0 <=> dz.sent[1] = [by |-> "daemon", rc |-> err_none]

\* C13: when the read of the original finds the pipe closed by every writer with no
\* byte written, the original exits with err_pipe_read, not with 0
C13_EofIsPipeReadError ==
    dz.pread = "eof" => dz.sent = <<>> /\ dz.status["original"] = err_pipe_read

\* C14: every fatal step of daemonize (pipe, first fork, setsid, second fork,
\* /dev/null, chdir, PID file, privilege drop) ends its process with the code of the
\* step as exit status and daemonize does not return there; daemonize returns only
\* in the daemon and only err_none
C14_FatalStepExits ==
    \A q \in Procs :
        /\ dz.failed[q] # 0 => dz.status[q] = dz.failed[q] /\ dz.ret[q] = NoRet
        /\ dz.ret[q] # NoRet => q = "daemon" /\ dz.ret[q] = err_none

\* C14 as the code has it: a fatal step after the first fork writes its code to the
\* pipe and ends its process with that code as exit status, and daemonize does not
\* return there; a failed pipe or first fork returns the negated code to the caller,
\* which goes to cleanup without exiting; daemonize returns err_none only in the
\* daemon, after every step succeeded
C14_FatalStepExitsAfterFork ==
    \A q \in Procs :
        /\ dz.failed[q] \in {err_pipe_create, err_fork}
           => /\ q = "original"
              /\ dz.ret[q] = 0 - dz.failed[q]
              /\ dz.status[q] = NoId
              /\ trace.path = "daemonize_fail"
              /\ dz.sent = <<>>
        /\ dz.failed[q] \notin {0, err_pipe_create, err_fork}
           => /\ q # "original"
              /\ dz.status[q] = dz.failed[q]
              /\ dz.ret[q] = NoRet
              /\ dz.sent = <<[by |-> q, rc |-> dz.failed[q]]>>
        /\ dz.ret[q] = err_none
           => /\ q = "daemon"
              /\ \A r \in Procs : dz.failed[r] = 0
              /\ dz.sent = <<[by |-> "daemon", rc |-> err_none]>>
        /\ dz.ret[q] \notin {NoRet, err_none} => dz.failed[q] # 0

C14_DaemonExitsWithCode ==
    /\ dz.failed["daemon"] = err_chdir
    /\ dz.status["daemon"] = err_chdir
    /\ dz.status["child"] = 0
    /\ pc = "daemonize"

C16_PidFileAsymmetry ==
    /\ dz.failed["daemon"] = err_pid_file
       <=> PidOpenFailed /\ dz.priv
    /\ dz.failed["daemon"] = err_pid_file
       => dz.at["daemon"] = "exited" /\ dz.status["daemon"] = err_pid_file
    /\ PidOpenFailed /\ ~dz.priv /\ dz.at["daemon"] = "returned"
       => /\ dz.ret["daemon"] = err_none
          /\ dz.steps = <<"devnull", "umask", "chdir", "nopidfile", "success">>
          /\ dz.sent = <<[by |-> "daemon", rc |-> err_none]>>

C16_UnprivilegedGoesOn ==
    /\ ~dz.priv
    /\ "nopidfile" \in Range(dz.steps)
    /\ dz.at["daemon"] = "returned"
    /\ pc = "read_config"

\* C17: when a handler returns RES_ERROR, the loop closes the descriptor of that
\* slot and sets the fd of that slot to -1, which makes the slot free for the next
\* registration; every other handler slot, the task table and running are as they
\* were, and the dispatch goes on with the next slot
HandlerFailed ==
    /\ res.op = "handler_return"
    /\ res.arg = "RES_ERROR"
    /\ pc = "dispatch"
    /\ di = res.id + 1

DispatchedPast(i) == di = FD_MAX \/ (pc = "dispatch" /\ i < di)

C18_ReportedSlotsInvokedOnce ==
    \A i \in FdSlots :
        /\ Len(disp.inv[i]) <= 1
        /\ disp.rev[i] = {} => disp.inv[i] = <<>>
        /\ disp.inv[i] # <<>>
           => /\ disp.inv[i][1].pollfd = i
              /\ disp.inv[i][1].callback = disp.eh[i].callback
              /\ disp.inv[i][1].context = disp.eh[i].context
        /\ disp.rev[i] # {} /\ i \notin disp.gone /\ DispatchedPast(i)
           => Len(disp.inv[i]) = 1

C18_TwoCalledOneSkipped ==
    /\ pc = "loop"
    /\ di = FD_MAX
    /\ \E i, j, k \in FdSlots :
        /\ i < j
        /\ disp.inv[i] # <<>> /\ disp.inv[j] # <<>>
        /\ disp.inv[i][1].context # disp.inv[j][1].context
        /\ disp.eh[k].callback # NULL /\ disp.rev[k] = {} /\ disp.inv[k] = <<>>

\* C19: when config_parser returns NULL the configuration installed before the call
\* stays installed and is not released; when it returns a new object, that object
\* is installed and the one installed before is released once, through the
\* config_cleanup hook if there is one and with free otherwise
C19_ReloadKeepsOrReplaces ==
    cfglog.parses > 0 /\ pc # "returned"
        => /\ cfglog.ret = 0
              => /\ app_config = cfglog.old
                 /\ \A o \in 1 .. MaxObjs : o = cfglog.old => released[o] = cfglog.rel
           /\ cfglog.ret \notin {0, cfglog.old}
              => /\ app_config = cfglog.ret
                 /\ released[cfglog.ret] = <<>>
                 /\ \A o \in 1 .. MaxObjs :
                        o = cfglog.old
                            => released[o] = Append(cfglog.rel,
                                                    IF ud_config.config_cleanup
                                                    THEN "config_cleanup" ELSE "free")

C19_ReloadReplaced ==
    /\ cb.kind = "signal"
    /\ cb.sig = SIG_HUP
    /\ cfglog.parses = 2
    /\ cfglog.old = 1
    /\ cfglog.ret = 2
    /\ app_config = 2
    /\ released[1] = <<"free">>

\* C20: config_parser is first called before daemonize forks and before setgid and
\* setuid are called: once the first fork or the privilege drop has happened in a
\* daemon with a configuration file, the parser has been called
C20_ParsedBeforeDaemonizing ==
    /\ dz.at["child"] # "none" => cfglog.parses > 0
    /\ "setgid" \in Range(dz.steps) => cfglog.parses > 0

\* C21: a ud_schedule_task call that returns 0 occupies one task slot that was free,
\* the lowest one, with the task, the interval, the context and the deadline
\* time(NULL) + interval, and leaves every other task slot and the handler tables as
\* they were, whether or not the same task and context are already registered
C21_ScheduleOccupiesLowestFree ==
    res.op = "schedule" /\ res.rc = "OK"
        => /\ res.id \in TaskSlots
           /\ res.pre.task_queue[res.id].task = NULL
           /\ \A j \in TaskSlots : res.pre.task_queue[j].task = NULL => res.id <= j
           /\ task_queue[res.id].task # NULL
           /\ task_queue[res.id].task = res.cbk
           /\ task_queue[res.id].interval = res.arg
           /\ task_queue[res.id].context = AppContext
           /\ pc \in {"app", "cb"} => task_queue[res.id].next_deadline = clock + res.arg
           /\ \A j \in TaskSlots \ {res.id} : task_queue[j] = res.pre.task_queue[j]
           /\ pollfds = res.pre.pollfds
           /\ event_handlers = res.pre.event_handlers

\* C22: ud_destroy of a NULL handle, and ud_destroy of a handle that was destroyed
\* before, does nothing: the block of the state is released once, and the second
\* call neither stops the process nor damages anything
C22_DestroyIdempotent ==
    /\ heap.frees <= 1
    /\ ~heap.corrupt
    /\ pc # "aborted"

\* C23: ud_parse_uid looks the user part up by id exactly when that part is a
\* non-negative integer written in full, and by name otherwise, and the same for
\* the group part when there is one; an empty user or group part is not looked up
\* as id 0; "0:0" gives uid 0 and gid 0
IsNumber(part) ==
    /\ part # <<>>
    /\ \/ \A k \in 1 .. Len(part) : part[k] \in Digits
       \/ /\ Len(part) > 1
          /\ part[1] = "-"
          /\ \A k \in 2 .. Len(part) : part[k] = "0"

C23_NumericOnlyIfInteger ==
    ident.entry \notin {<<"?">>, <<>>}
        => /\ ident.user_by = "getpwuid" <=> IsNumber(UserPart(ident.entry))
           /\ ident.group_by = "getgrgid" => IsNumber(GroupPart(ident.entry))
           /\ ident.group_by = "getgrnam" => ~IsNumber(GroupPart(ident.entry))
           /\ UserPart(ident.entry) = <<>> => ident.uid # 0
           /\ LastColon(ident.entry) # 0 /\ GroupPart(ident.entry) = <<>>
              => ~(ident.rc = 0 /\ ident.gid = 0 /\ ident.group_by = "getgrgid")
           /\ ident.entry = <<"0", ":", "0">>
              => ident.rc = 0 /\ ident.uid = 0 /\ ident.gid = 0

\* C24: for as long as os_signal_handler is installed, event_pipe[1] is the open
\* write end of the self-pipe: the pipe exists before the handlers are installed
\* and is not closed while they are
C24_PipeValidWhileInstalled == installed => PipeOpen

\* the signals main_signal_handler passed on to udaemon_signal_handler, in order
Forwarded == [k \in 1..Len(trace.fwd) |-> trace.fwd[k].signal]

\* C25: the bytes os_signal_handler wrote to the self-pipe are passed on to the
\* signal hook in the order written and no more than once each, and when
\* ud_main_loop has returned every one of them has been passed on, the bytes
\* queued behind a SIG_TERM included
C25_WrittenBytesForwardedOnce ==
    /\ Len(Forwarded) <= Len(trace.written)
    /\ Forwarded = SubSeq(trace.written, 1, Len(Forwarded))
    /\ pc = "returned" => Forwarded = trace.written

\* main_signal_handler was called in this pass of the dispatch loop and has
\* returned: the loop is at the slot after the one of the self-pipe
SignalHandlerReturned ==
    /\ pc = "dispatch"
    /\ \E i \in FdSlots : /\ di = i + 1
                          /\ disp.inv[i] # <<>>
                          /\ Last(disp.inv[i]).callback = "main_signal_handler"

\* C26: for every byte main_signal_handler reads, config_parser is called before
\* the signal hook on SIG_HUP and is not called for another signal; the signal
\* hook is called with every signal read; while the hook runs, running is what it
\* was before the byte was read, and when it has returned running is false after
\* SIG_TERM and unchanged after any other signal
C26_ParserThenHookThenTerminate ==
    /\ Len(sigpipe) + Len(trace.fwd) = Len(trace.written)
    /\ \A k \in 1..Len(trace.fwd) :
          LET e == trace.fwd[k] IN
          e.parses = IF e.signal = SIG_HUP /\ ud_config.conf THEN e.before + 1
                     ELSE e.before
    /\ pc = "cb" /\ cb.kind = "signal"
       => /\ ud_config.signal_handler
          /\ cb.sig = Last(trace.fwd).signal
          /\ cfglog.parses = Last(trace.fwd).parses
          /\ running = Last(trace.fwd).run
    /\ SignalHandlerReturned /\ ud_config.signal_handler
       => /\ res.op = "signal_return"
          /\ res.arg = Last(trace.fwd).signal
          /\ running = IF res.arg = SIG_TERM THEN FALSE ELSE res.run
    /\ SignalHandlerReturned /\ ~ud_config.signal_handler
       => running = IF Last(trace.fwd).signal = SIG_TERM THEN FALSE
                    ELSE Last(trace.fwd).run

\* a SIG_HUP and then a SIG_TERM were passed to the signal hook: the parser ran
\* before the first call, and the loop was stopped when the second had returned
C26_ReloadThenTerminate ==
    /\ ud_config.signal_handler /\ ud_config.conf
    /\ Forwarded = <<SIG_HUP, SIG_TERM>>
    /\ trace.fwd[1].parses = trace.fwd[1].before + 1
    /\ trace.fwd[2].run
    /\ res.op = "signal_return" /\ res.arg = SIG_TERM
    /\ ~running

\* C27: the initialize hook is called at most once, after the configuration load
\* of startup and, unless the daemon runs in the foreground, in the daemon process
\* after daemonize returned err_none there, never in a process in which daemonize
\* did not return; whatever the configuration load gave, the hook is called next
\* and only its own result keeps ud_main_loop from the while loop
C27_InitializeOnceInDaemon ==
    /\ Len(trace.inits) <= 1
    /\ \A k \in 1..Len(trace.inits) :
          LET e == trace.inits[k] IN
          /\ e.loads = 1
          /\ IF ud_config.foreground
             THEN e.proc = {} /\ dz = NoDz
             ELSE /\ e.proc = {"daemon"}
                  /\ dz.ret["daemon"] = err_none
                  /\ Last(dz.steps) = "success"
    /\ trace.loads = 1
       => /\ pc = "initialize"
             \/ Len(trace.inits) = (IF ud_config.initialize THEN 1 ELSE 0)
          /\ trace.path \in {"none", "init_fail"}
          /\ trace.path = "none" /\ pc # "initialize" /\ pc # "cb" => pc = "loop"

\* the daemon's configuration load failed, the initialize hook was called in the
\* daemon and returned 0, and ud_main_loop is at its while loop
C27_DaemonInitializedAfterFailedLoad ==
    /\ ~ud_config.foreground
    /\ cfglog.parses = 1 /\ cfglog.ret = 0
    /\ Len(trace.inits) = 1
    /\ dz.at["child"] = "exited"
    /\ pc = "loop"

\* no task, handler, idle or signal callback has been called, and poll has not
\* been reached
NoSteadyState ==
    /\ iter = 0
    /\ pc \notin {"tasks", "poll", "dispatch"}
    /\ cb.kind \notin {"task", "handler", "idle", "signal"}
    /\ \A i \in TaskSlots : hist[i].runs = 0
    /\ disp = NoDisp

NothingDispatched == \A i \in FdSlots : disp.inv[i] = <<>>

\* C29: after a poll that failed with EINTR the loop is back at its while test with
\* running still true, and no handler and no idle hook was called; after any other
\* failure of poll ud_main_loop is at its cleanup and no handler was called; the
\* idle hook runs only after a poll that returned 0, and handlers only after a
\* poll that returned a positive count
C29_InterruptedPollRetried ==
    /\ disp.poll = "EINTR"
       => /\ pc = "loop"
          /\ running
          /\ cb = NoCb
          /\ NothingDispatched
    /\ disp.poll = "EFAULT"
       => /\ trace.path = "poll_fail"
          /\ pc \in {"cleanup", "cb", "returned"}
          /\ pc = "cb" => cb.kind = "cleanup"
          /\ NothingDispatched
    /\ cb.kind = "idle" => disp.poll = "zero"
    /\ disp.poll = "zero" => NothingDispatched
    /\ pc = "dispatch" \/ cb.kind = "handler" => disp.poll = "ready"

\* a daemon with an idle hook and a registered handler whose poll was interrupted
\* in the first iteration and again in the second
C29_InterruptedTwice ==
    /\ disp.poll = "EINTR"
    /\ iter = 2
    /\ pc = "loop"
    /\ ud_config.idle_handler
    /\ \E i \in FdSlots : event_handlers[i].callback = "app_event_handler"

\* the place of a step in the daemon's part of daemonize
StepRank(step) ==
    CASE step = "devnull" -> 1
      [] step = "umask" -> 2
      [] step = "chdir" -> 3
      [] step \in {"pidfile", "nopidfile"} -> 4
      [] step = "setgid" -> 5
      [] step = "setuid" -> 6
      [] step = "success" -> 7

\* the daemon went through every step before the success byte
StartupDone ==
    /\ {"devnull", "umask", "chdir", "success"} \subseteq Range(dz.steps)
    /\ dz.pidf => "pidfile" \in Range(dz.steps) \/ "nopidfile" \in Range(dz.steps)
    /\ dz.priv => {"setgid", "setuid"} \subseteq Range(dz.steps)
    /\ dz.failed["daemon"] = 0

\* C30: the daemon takes its steps in the order /dev/null, umask, chdir, PID file
\* (if asked for), setgid and setuid (as root only), success byte; the success
\* byte is written only when every step before it was taken and none failed; and
\* the original exits with status 0 only when the daemon has written the success
\* byte, after its PID file step and its privilege drop
C30_SuccessByteLast ==
    /\ \A j, k \in 1 .. Len(dz.steps) :
          j < k => StepRank(dz.steps[j]) < StepRank(dz.steps[k])
    /\ ~dz.priv => "setgid" \notin Range(dz.steps) /\ "setuid" \notin Range(dz.steps)
    /\ "success" \in Range(dz.steps) => StartupDone
    /\ dz.status["original"] = 0 => StartupDone

\* C31: over the original, the first child and the daemon, whatever steps fail,
\* write is called on err_pipe at most once and at most one byte is in the pipe;
\* once the second fork succeeded the first child has exited with status 0 and
\* has written nothing; the daemon, when it has left daemonize by itself, has
\* made the one write: the code of its failed step, or err_none
C31_OneOutcomeByte ==
    /\ Len(dz.sent) <= 1
    /\ Len(dz.pipe) <= 1
    /\ \A k \in 1 .. Len(dz.pipe) :
          dz.sent # <<>> /\ dz.pipe[k] = ByteOf(dz.sent[1].rc, dz.endian)
    /\ dz.at["daemon"] # "none"
       => /\ dz.at["child"] = "exited"
          /\ dz.status["child"] = 0
          /\ \A k \in 1 .. Len(dz.sent) : dz.sent[k].by = "daemon"
    /\ dz.at["daemon"] \in {"exited", "returned"} /\ "daemon" \notin dz.killed
       => dz.sent = <<[by |-> "daemon",
                       rc |-> IF dz.at["daemon"] = "returned" THEN err_none
                              ELSE dz.failed["daemon"]]>>

\* the daemon failed at chdir and wrote the one byte, the first child had exited
\* with 0, and the original has read the byte
C31_DaemonWroteFailure ==
    /\ dz.sent = <<[by |-> "daemon", rc |-> err_chdir]>>
    /\ dz.status["child"] = 0
    /\ dz.pread = "byte"
    /\ dz.pipe = <<>>

\* C32: when the dispatch loop is at slot di, every slot from di on whose revents
\* is non-zero has a callback that is not NULL, and no call the loop made in this
\* pass was a call of NULL, whatever the task and the handlers registered and
\* removed before and during the pass and whichever handlers failed
C32_ReadySlotHasCallback ==
    /\ pc = "dispatch"
       => \A i \in FdSlots :
            i >= di /\ pollfds[i].revents # {} => event_handlers[i].callback # NULL
    /\ \A i \in FdSlots :
          \A k \in 1 .. Len(disp.inv[i]) : disp.inv[i][k].callback # NULL

\* during a pass in which poll reported two slots, the handler of the lower one
\* removed the higher one and registered again, which put a new registration
\* into the slot the loop comes to next
C32_HigherSlotReplaced ==
    /\ pc = "dispatch"
    /\ \E i, j \in FdSlots :
        /\ i < j /\ di = j
        /\ disp.inv[i] # <<>>
        /\ disp.rev[j] # {} /\ j \in disp.gone
        /\ pollfds[j].fd >= 0
        /\ event_handlers[j].callback = "app_event_handler"
        /\ res.op = "handler_return"

C34_LiveHandleNotReissued ==
    res.op = "add" /\ res.rc = "OK"
        => res.pre.event_handlers[res.id].callback = NULL

\* C35: no configuration object is released (config_cleanup hook or free) more
\* than once, and the object installed as app_config has not been released,
\* whatever config_parser returned at startup and on a reload
C35_InstalledConfigNotReleased ==
    \A o \in 1 .. MaxObjs :
        /\ Len(released[o]) <= 1
        /\ app_config = o => released[o] = <<>>

\* C36: once running is false inside ud_main_loop, no further iteration is
\* entered and running stays false; the iteration under way is finished as
\* usual, and the cleanup label is reached from the while test only (or from a
\* failed poll, or from an initialize hook that failed)
C36_StopAfterThisIteration ==
    [][~running /\ pc \notin {"app", "returned"}
        => /\ iter' = iter
           /\ ~running'
           /\ pc' = "cleanup" /\ pc # "cleanup"
              => \/ pc = "loop" /\ trace'.path = "terminated"
                 \/ pc = "poll" /\ trace'.path = "poll_fail"
                 \/ pc = "cb" /\ cb.kind = "initialize"]_vars

\* running is false, a task was called in this pass, and a handler is being
\* called after it in the same iteration
C36_HandlerCalledAfterStop ==
    /\ ~running
    /\ pc = "cb" /\ cb.kind = "handler"
    /\ \E i \in TaskSlots : passed[i] = 1
    /\ iter = 1

\* C37: the cleanup of ud_main_loop unlinks the configured PID file path only in a
\* process that wrote the PID file itself, which is the daemon after write_pidfile
\* created the file: not in the foreground, and not in the original process after
\* pipe() or the first fork() of daemonize failed
C37_UnlinkedOnlyByWriter ==
    \A q \in trace.unlinked : q = "daemon" /\ "pidfile" \in Range(dz.steps)

\* the entries of seq that satisfy equal b
Count(seq, b) == Cardinality({k \in 1 .. Len(seq) : seq[k] = b})

\* C38: the daemon's loop dispatches a signal event only for a signal that was
\* delivered to the daemon process: of each kind main_signal_handler has handled
\* no more events than the daemon's os_signal_handler wrote, and the loop ends as
\* terminated only after a SIGTERM or SIGINT to the daemon; a signal delivered to
\* the original or the first child during the handshake changes neither
C38_OnlyDaemonSignalsDispatched ==
    /\ \A b \in {SIG_TERM, SIG_HUP, SIG_USR1, SIG_USR2} :
          Count([k \in 1 .. Len(trace.fwd) |-> trace.fwd[k].signal], b)
              <= Count(trace.written, b)
    /\ trace.path = "terminated" => Count(trace.written, SIG_TERM) > 0

====
